---------------------------- MODULE Spec2Model ----------------------------
(***************************************************************************)
(* LiDARProcessor: the Velodyne capture reader (VelodynePCAPReader.cpp)    *)
(* and the sensor that wraps it (VelodyneLidar in LidarFactory.cpp).       *)
(*                                                                         *)
(* A capture file is a value: a global header and a list of records, each  *)
(* lying at a byte offset of the file.  The stream position fpos is a byte *)
(* offset, sizes are the sizes of the packed structures of the source.     *)
(* The scan buffer m_scan is zero-initialised at construction (m_scan{});  *)
(* its arrays are kept as functions over the indices written so far, an    *)
(* index outside the domain holding the zero-initialised element.          *)
(***************************************************************************)
EXTENDS Integers, Sequences, FiniteSets, TLC

(***************************************************************************)
(* Program constants.                                                      *)
(***************************************************************************)
GLSE_SUCCESS == 0
GLSE_EOF == 1
GLSE_FILEIOERR == 2
GLSE_FILEFORMAT_ERROR == 3

dataPacketLength == 1248
gpsPacketLength == 554
GlobalHdrSize == 24
RecHdrSize == 16
DataPacketSize == 1248
PositioningPacketSize == 554
BlocksPerPacket == 12
LasersPerBlock == 32
kHDLMaxBlocksPerScanDefault == 181
maxNumPacketsToCheck == 100

VLP16_Hardware == [blocksPerScan |-> 76, firingSequencesPerBlock |-> 24, numBeams |-> 16]
HDL32_Hardware == [blocksPerScan |-> 181, firingSequencesPerBlock |-> 12, numBeams |-> 32]
VLP32C_Hardware == [blocksPerScan |-> 151, firingSequencesPerBlock |-> 12, numBeams |-> 32]

\* the extent of LiDARScan_t::firings
maxkHDLFiringSequencesPerBlock == 24
maxkHDLMaxBlocksPerScan == 181

\* LiDARHardware_t, in the order of the enumeration (VLP16 is the value 0).
LiDARHardware_t == {"VLP16", "HDL32", "VLP32C", "unknown"}

Two16 == 65536

(***************************************************************************)
(* Bounds of the model.                                                    *)
(***************************************************************************)
\* longest record list of the enumerated captures
MaxRecs == 2
\* calls made on one sensor (configure and readNextScan together)
MaxCalls == 3

(***************************************************************************)
(* float: a non-negative binary32 value is <<m, e>>, standing for m * 2^e  *)
(* with 2^23 <= m < 2^24, or <<0, 0>> for 0.0.                             *)
(***************************************************************************)
F32Zero == <<0, 0>>
\* 0.01F, the floor of configure's clamp
F32_0p01 == <<10737418, -30>>
\* 0.002F, m_metersPerTick
F32_0p002 == <<8589935, -32>>
F32_1 == <<8388608, -23>>
F32_120 == <<15728640, -17>>

F32Lt(a, b) ==
    IF a[1] = 0 THEN b[1] > 0
    ELSE IF b[1] = 0 THEN FALSE
    ELSE a[2] < b[2] \/ (a[2] = b[2] /\ a[1] < b[1])

\* std::max(a, b): (a < b) ? b : a
F32Max(a, b) == IF F32Lt(a, b) THEN b ELSE a

RECURSIVE BitLen(_)
BitLen(x) == IF x = 0 THEN 0 ELSE 1 + BitLen(x \div 2)

\* The rounding to nearest-even on 24 bits of the product A * 4096 + B,
\* A having k + 12 bits, of a factor with exponent e.
F32RoundProduct(A, B, e, k) ==
    LET mant0 == IF k <= 12 THEN A * (2 ^ (12 - k)) + (B \div (2 ^ k))
                 ELSE A \div (2 ^ (k - 12))
        rem == IF k <= 12 THEN B % (2 ^ k)
               ELSE (A % (2 ^ (k - 12))) * 4096 + B
        half == IF k = 0 THEN 0 ELSE 2 ^ (k - 1)
        up == k > 0 /\ (rem > half \/ (rem = half /\ mant0 % 2 = 1))
        mant1 == IF up THEN mant0 + 1 ELSE mant0
    IN  IF mant1 = 16777216 THEN <<8388608, e + k + 1>>
        ELSE <<mant1, e + k>>

F32ProductOf(A, B, e) == F32RoundProduct(A, B, e, BitLen(A) - 12)

\* static_cast<float>(raw) * f, for 1 <= raw < 2^16: the exact product
\* raw * f[1] (40 bits, kept as A * 4096 + B) rounded on 24 bits.
F32MulU16(raw, f) ==
    F32ProductOf(raw * (f[1] \div 4096) + ((raw * (f[1] % 4096)) \div 4096),
                 (raw * (f[1] % 4096)) % 4096,
                 f[2])


(***************************************************************************)
(* Data packets.  A packet of a capture is described by its trailer bytes, *)
(* the azimuths of its 12 blocks and its beam readings; Packet expands the *)
(* description into the data_packet_t that fread delivers.                 *)
(***************************************************************************)
kFlagUpper == 61183

\* the beam readings a packet description stands for
RangeTable == <<0, 3, 5, 400, 500, 0, 501, 59999, 60000, 65535, 0>>

ReadingOf(pat, k, b) ==
    LET n == k * LasersPerBlock + b IN
    IF pat = "zero" THEN [range |-> 0, refl |-> 0]
    ELSE IF pat = "one" THEN
        IF n = 0 THEN [range |-> 500, refl |-> 128] ELSE [range |-> 0, refl |-> 0]
    ELSE IF pat = "near" THEN
        IF n % 3 = 0 THEN [range |-> 0, refl |-> 0]
        ELSE [range |-> 1 + (n % 4), refl |-> (n * 7) % 256]
    ELSE [range |-> RangeTable[(n % Len(RangeTable)) + 1], refl |-> (n * 7) % 256]

\* azp = <<az0, daz, mod>>: block k has azimuth (az0 + k * daz) % mod
AzimuthOf(azp, k) == (azp[1] + k * azp[2]) % azp[3]

Packet(pk) ==
    [ factory_hi |-> pk.fhi,
      factory_lo |-> pk.flo,
      block |-> [k \in 0 .. BlocksPerPacket - 1 |->
                   [ flag |-> kFlagUpper,
                     azimuth |-> AzimuthOf(pk.azp, k),
                     v_laser |-> [b \in 0 .. LasersPerBlock - 1 |->
                                    ReadingOf(pk.pat, k, b)] ]] ]

NoPk == [fhi |-> 0, flo |-> 0, azp |-> <<0, 0, 1>>, pat |-> "none"]

(***************************************************************************)
(* Capture files.  A record is its pcaprec_hdr_t, the description of the   *)
(* bytes saved after it (incl_len of them: a data packet, or zero bytes)   *)
(* and its byte offset in the file.  A file may end before its last        *)
(* record does (len below the end of the last record).                     *)
(***************************************************************************)
Rec(sec, usec, incl, orig, pk) ==
    [ts_sec |-> sec, ts_usec |-> usec, incl_len |-> incl, orig_len |-> orig,
     pk |-> pk, off |-> 0]

\* the bytes the records lo..hi of rs take in the file
RECURSIVE BytesOf(_, _, _)
BytesOf(rs, lo, hi) ==
    IF lo > hi THEN 0
    ELSE IF lo = hi THEN RecHdrSize + rs[lo].incl_len
    ELSE BytesOf(rs, lo, (lo + hi) \div 2) + BytesOf(rs, ((lo + hi) \div 2) + 1, hi)

OffsetOf(rs, i) == GlobalHdrSize + BytesOf(rs, 1, i - 1)

EndOfRecs(rs) == GlobalHdrSize + BytesOf(rs, 1, Len(rs))

\* magic is the magic_number as its halves <<high 16 bits, low 16 bits>>
MkFile(exists, magic, vmaj, vmin, rs, cut) ==
    [ exists |-> exists, magic |-> magic,
      version_major |-> vmaj, version_minor |-> vmin,
      recs |-> [i \in 1 .. Len(rs) |-> [rs[i] EXCEPT !.off = OffsetOf(rs, i)]],
      len |-> EndOfRecs(rs) - cut ]

\* the record whose header or saved bytes hold byte p (0 when none does)
RecIndexAt(f, p) ==
    LET hit == {i \in 1 .. Len(f.recs) :
                   /\ f.recs[i].off <= p
                   /\ p < f.recs[i].off + RecHdrSize + f.recs[i].incl_len}
    IN  IF hit = {} THEN 0 ELSE CHOOSE i \in hit : TRUE

ZeroHdr == [ts_sec |-> 0, ts_usec |-> 0, incl_len |-> 0, orig_len |-> 0]

\* the 16 bytes at p, which lie in the file; i is RecIndexAt(f, p)
ReadHeaderAt(f, p, i) ==
    IF i = 0
    THEN [ok |-> TRUE, hdr |-> ZeroHdr, idx |-> 0, aligned |-> FALSE, pos |-> p + RecHdrSize]
    ELSE IF f.recs[i].off = p
    THEN [ok |-> TRUE,
          hdr |-> [ts_sec |-> f.recs[i].ts_sec, ts_usec |-> f.recs[i].ts_usec,
                   incl_len |-> f.recs[i].incl_len, orig_len |-> f.recs[i].orig_len],
          idx |-> i, aligned |-> TRUE, pos |-> p + RecHdrSize]
    ELSE \* inside the saved bytes of record i
         [ok |-> TRUE, hdr |-> ZeroHdr, idx |-> 0,
          aligned |-> /\ f.recs[i].pk.pat = "none"
                      /\ p >= f.recs[i].off + RecHdrSize
                      /\ p + RecHdrSize <= f.recs[i].off + RecHdrSize + f.recs[i].incl_len,
          pos |-> p + RecHdrSize]

\* fread(&phdr, sizeof(phdr), 1, fp) at position p: ok is the return value
\* being 1; idx is the record whose header was read (0: the 16 bytes are
\* not a record header); aligned is FALSE when the bytes read are some the
\* file description does not give.
ReadHeader(f, p) ==
    IF p + RecHdrSize > f.len
    THEN [ok |-> FALSE, hdr |-> ZeroHdr, idx |-> 0, aligned |-> TRUE,
          pos |-> IF p > f.len THEN p ELSE f.len]
    ELSE ReadHeaderAt(f, p, RecIndexAt(f, p))

\* the 1248 bytes at p, which lie in the file; i is RecIndexAt(f, p)
ReadPacketAt(f, p, i) ==
    IF /\ i # 0
       /\ f.recs[i].off + RecHdrSize = p
       /\ f.recs[i].incl_len = DataPacketSize
       /\ f.recs[i].pk.pat # "none"
    THEN [ok |-> TRUE, pk |-> f.recs[i].pk, aligned |-> TRUE, pos |-> p + DataPacketSize]
    ELSE [ok |-> TRUE, pk |-> NoPk, aligned |-> FALSE, pos |-> p + DataPacketSize]

\* fread(pkt, sizeof(data_packet_t), 1, fp) at position p
ReadPacket(f, p) ==
    IF p + DataPacketSize > f.len
    THEN [ok |-> FALSE, pk |-> NoPk, aligned |-> TRUE, pos |-> IF p > f.len THEN p ELSE f.len]
    ELSE ReadPacketAt(f, p, RecIndexAt(f, p))

(***************************************************************************)
(* The reader: VelodynePCAPReader.cpp.                                     *)
(***************************************************************************)
\* Unsigned integers wider than the checker's own are sequences of bytes,
\* least significant first: an unsigned int has 4 of them, an unsigned long
\* long 8.  The arithmetic of a type is arithmetic modulo 256^(its bytes).
U32Bytes == 4
U64Bytes == 8

\* the unsigned int holding x (0 <= x < 2^31)
U32Of(x) == <<x % 256, (x \div 256) % 256, (x \div 65536) % 256, (x \div 16777216) % 256>>

\* static_cast to a type of n bytes of an unsigned value of fewer bytes
Widen(a, n) == a \o [i \in 1 .. n - Len(a) |-> 0]

\* a + b + carry in the type of a
RECURSIVE AddBytes(_, _, _)
AddBytes(a, b, carry) ==
    IF a = <<>> THEN <<>>
    ELSE <<(a[1] + b[1] + carry) % 256>>
         \o AddBytes(Tail(a), Tail(b), (a[1] + b[1] + carry) \div 256)

\* k * a + carry in the type of a (k < 2^21)
RECURSIVE MulBytes(_, _, _)
MulBytes(a, k, carry) ==
    IF a = <<>> THEN <<>>
    ELSE <<(a[1] * k + carry) % 256>> \o MulBytes(Tail(a), k, (a[1] * k + carry) \div 256)

\* a - b in the type of a: a + ~b + 1
SubBytes(a, b) == AddBytes(a, [i \in 1 .. Len(b) |-> 255 - b[i]], 1)

\* a < b for unsigned ints a and b
LtBytes(a, b) ==
    \/ a[4] * 256 + a[3] < b[4] * 256 + b[3]
    \/ /\ a[4] * 256 + a[3] = b[4] * 256 + b[3]
       /\ a[2] * 256 + a[1] < b[2] * 256 + b[1]

\* the value of an unsigned long long that is below 2^31
NatOfBytes(b) == b[1] + 256 * b[2] + 65536 * b[3] + 16777216 * b[4]

\* s - (2^32 - 1) for a 5-byte s >= 2^32 - 1: t is s + 1
LessRollover(t) == [t EXCEPT ![5] = t[5] - 1]

\* one conditional subtraction of 2^32 - 1 from the 5-byte s
ReduceRollover(s) ==
    IF s[5] >= 1 \/ (s[1] = 255 /\ s[2] = 255 /\ s[3] = 255 /\ s[4] = 255)
    THEN LessRollover(AddBytes(s, <<1, 0, 0, 0, 0>>, 0))
    ELSE s

\* v % ((1ULL << 32) - 1ULL) for an unsigned long long v: with
\* v = hi * 2^32 + lo the remainder is that of hi + lo, which is below
\* 2 * (2^32 - 1) + 1
ModRollover(v) ==
    Widen(SubSeq(ReduceRollover(ReduceRollover(
              AddBytes(Widen(SubSeq(v, 1, 4), 5), Widen(SubSeq(v, 5, 8), 5), 0))), 1, 4),
          U64Bytes)

\* convertSecondsToMicroSeconds multiplying in unsigned int
convertSecondsToMicroSeconds32(timestamp_s) ==
    Widen(MulBytes(timestamp_s, 1000000, 0), U64Bytes)

convertSecondsToMicroSeconds(timestamp_s) ==
    MulBytes(Widen(timestamp_s, U64Bytes), 1000000, 0)

\* getPCAPVersionDependentLiDARTimestamp converting every record as Corrected
TimestampAlwaysCorrected(phdr_ts_sec, phdr_ts_usec, type) ==
    ModRollover(AddBytes(convertSecondsToMicroSeconds(phdr_ts_sec),
                         Widen(phdr_ts_usec, U64Bytes), 0))

\* phdr_ts_sec and phdr_ts_usec are unsigned ints, the result an unsigned
\* long long.  Legacy: each product is formed in unsigned int and widened
\* afterwards.
getPCAPVersionDependentLiDARTimestamp(phdr_ts_sec, phdr_ts_usec, type) ==
    IF type = "Legacy"
    THEN AddBytes(Widen(MulBytes(phdr_ts_sec, 1000, 0), U64Bytes),
                  Widen(MulBytes(phdr_ts_usec, 1000, 0), U64Bytes), 0)
    ELSE ModRollover(AddBytes(convertSecondsToMicroSeconds(phdr_ts_sec),
                              Widen(phdr_ts_usec, U64Bytes), 0))

\* One call of readNextDataPacket at position p.  ok: the return value;
\* tsSet/ts: whether *timestamp_us was assigned, and the value; pk: the
\* packet read; idx: the record it is the saved bytes of; failAt: where the
\* header read that ended the search began (-1: none failed); depth: the
\* nesting of the calls.
RECURSIVE readNextDataPacket(_, _, _, _)

\* lines 99-103: the header h is that of a data packet, b is the read of
\* the packet.  The record timestamps of the captures keep the converted
\* value below 2^31.
ReadDataPacketOf(h, b, type, depth) ==
    [ok |-> b.ok, pos |-> b.pos, tsSet |-> TRUE,
     ts |-> NatOfBytes(getPCAPVersionDependentLiDARTimestamp(
                           U32Of(h.hdr.ts_sec), U32Of(h.hdr.ts_usec), type)),
     pk |-> b.pk, idx |-> IF b.ok THEN h.idx ELSE 0,
     aligned |-> h.aligned /\ b.aligned, failAt |-> -1, depth |-> depth]

\* lines 108-109: r is what the nested call behind the skipped record gave
SkippedRecordOf(h, r) == [r EXCEPT !.aligned = r.aligned /\ h.aligned]

\* lines 94-111, h being the read of the record header at p
AfterHeaderRead(f, p, type, depth, h) ==
    IF ~h.ok
    THEN [ok |-> FALSE, pos |-> h.pos, tsSet |-> FALSE, ts |-> 0, pk |-> NoPk,
          idx |-> 0, aligned |-> TRUE, failAt |-> p, depth |-> depth]
    ELSE IF h.hdr.orig_len = dataPacketLength
    THEN ReadDataPacketOf(h, ReadPacket(f, h.pos), type, depth)
    ELSE SkippedRecordOf(h, readNextDataPacket(f, h.pos + h.hdr.orig_len, type, depth + 1))

readNextDataPacket(f, p, type, depth) ==
    AfterHeaderRead(f, p, type, depth, ReadHeader(f, p))

\* lines 158-204: the firings one packet of a scan tagged hw is copied to
FiringsWrittenPerPacket(hw) ==
    IF hw = "VLP16" THEN VLP16_Hardware.firingSequencesPerBlock
    ELSE IF hw = "HDL32" THEN HDL32_Hardware.firingSequencesPerBlock
    ELSE IF hw = "VLP32C" THEN VLP32C_Hardware.firingSequencesPerBlock
    ELSE 0

\* (pkt.factory >> 8): factory is a short, the shift is arithmetic
FactoryShift8(pkt) ==
    LET u == pkt.factory_hi * 256 + pkt.factory_lo
        factory == IF u >= 32768 THEN u - Two16 ELSE u
    IN  factory \div 256

\* DetectHardware reading the low byte of the trailer
DetectHardwareLowByte(pkt) ==
    IF pkt.factory_lo = 34 THEN "VLP16"
    ELSE IF pkt.factory_lo = 33 THEN "HDL32"
    ELSE IF pkt.factory_lo = 40 THEN "VLP32C"
    ELSE "unknown"

\* the check of the LiDAR type, lines 130-156
DetectHardware(pkt) ==
    IF FactoryShift8(pkt) = 34 THEN "VLP16"
    ELSE IF FactoryShift8(pkt) = 33 THEN "HDL32"
    ELSE IF FactoryShift8(pkt) = 40 THEN "VLP32C"
    ELSE "unknown"

\* kHDLMaxBlocksPerScan after the check: left at 181 for unknown hardware
BlocksPerScanAfterDetect(hw) ==
    IF hw = "VLP16" THEN VLP16_Hardware.blocksPerScan
    ELSE IF hw = "HDL32" THEN HDL32_Hardware.blocksPerScan
    ELSE IF hw = "VLP32C" THEN VLP32C_Hardware.blocksPerScan
    ELSE kHDLMaxBlocksPerScanDefault

ZeroPoint == [range |-> 0, refl |-> 0]
ZeroFiring ==
    [flag |-> 0, azimuth |-> 0, v_laser |-> [b \in 0 .. LasersPerBlock - 1 |-> ZeroPoint]]

\* scan->firings[i], an element never written being zero-initialised
FiringAt(firings, i) == IF i \in DOMAIN firings THEN firings[i] ELSE ZeroFiring

\* integer division of C (toward zero), and the conversion to uint16_t
CDiv2(d) == IF d >= 0 THEN d \div 2 ELSE -((-d) \div 2)
ToU16(x) == x % Two16

\* VLP16Step with the azimuth change of an odd firing sequence never
\* computed anew
VLP16StepStaleChange(st, pkt, iBlock, i) ==
    LET at == iBlock * VLP16_Hardware.firingSequencesPerBlock + i
        old == FiringAt(st.firings, at)
        prev == FiringAt(st.firings, at - 1)
        blk == pkt.block[i \div 2]
    IN  IF i % 2 = 1
        THEN LET new == [ flag |-> prev.flag,
                          azimuth |-> ToU16(prev.azimuth + st.azimuthChange),
                          v_laser |-> [b \in 0 .. LasersPerBlock - 1 |->
                                         IF b < 16 THEN blk.v_laser[b + 16]
                                         ELSE old.v_laser[b]] ]
             IN  [firings |-> (at :> new) @@ st.firings, azimuthChange |-> st.azimuthChange]
        ELSE LET new == [ flag |-> blk.flag,
                          azimuth |-> blk.azimuth,
                          v_laser |-> [b \in 0 .. LasersPerBlock - 1 |->
                                         IF b < 16 THEN blk.v_laser[b]
                                         ELSE old.v_laser[b]] ]
             IN  [firings |-> (at :> new) @@ st.firings, azimuthChange |-> st.azimuthChange]

\* One pass of the VLP16 loop (lines 160-187) for firing sequence i of the
\* packet stored at block iBlock; st = [firings, azimuthChange].
VLP16Step(st, pkt, iBlock, i) ==
    LET at == iBlock * VLP16_Hardware.firingSequencesPerBlock + i
        old == FiringAt(st.firings, at)
        prev == FiringAt(st.firings, at - 1)
        blk == pkt.block[i \div 2]
    IN  IF i % 2 = 1
        THEN LET azc == IF i # VLP16_Hardware.firingSequencesPerBlock - 1
                        THEN ToU16(CDiv2(pkt.block[(i \div 2) + 1].azimuth - blk.azimuth))
                        ELSE st.azimuthChange
                 new == [ flag |-> prev.flag,
                          azimuth |-> ToU16(prev.azimuth + azc),
                          v_laser |-> [b \in 0 .. LasersPerBlock - 1 |->
                                         IF b < 16 THEN blk.v_laser[b + 16]
                                         ELSE old.v_laser[b]] ]
             IN  [firings |-> (at :> new) @@ st.firings, azimuthChange |-> azc]
        ELSE LET new == [ flag |-> blk.flag,
                          azimuth |-> blk.azimuth,
                          v_laser |-> [b \in 0 .. LasersPerBlock - 1 |->
                                         IF b < 16 THEN blk.v_laser[b]
                                         ELSE old.v_laser[b]] ]
             IN  [firings |-> (at :> new) @@ st.firings, azimuthChange |-> st.azimuthChange]

\* the firing sequences lo..hi of the loop, in order: the passes mid+1..hi
\* start from the value x the passes lo..mid leave
RECURSIVE VLP16Loop(_, _, _, _, _)
VLP16Loop(st, pkt, iBlock, lo, hi) ==
    IF lo > hi THEN st
    ELSE IF lo = hi THEN VLP16Step(st, pkt, iBlock, lo)
    ELSE LET mid == (lo + hi) \div 2 IN
         CHOOSE r \in {VLP16Loop(x, pkt, iBlock, mid + 1, hi) :
                          x \in {VLP16Loop(st, pkt, iBlock, lo, mid)}} : TRUE

\* DirectCopy with every packet copied to the start of the scan
DirectCopyNoOffset(firings, pkt, iBlock, cfg) ==
    [i \in 0 .. BlocksPerPacket - 1 |-> pkt.block[i]] @@ firings

\* memcpy(&scan->firings[iBlock * firingSequencesPerBlock], &pkt.block, sizeof(pkt.block))
DirectCopy(firings, pkt, iBlock, cfg) ==
    LET base == iBlock * cfg.firingSequencesPerBlock
    IN  [i \in base .. base + BlocksPerPacket - 1 |-> pkt.block[i - base]] @@ firings

\* the copy of one packet into the scan, lines 158-204
StorePacket(st, hw, pkt, iBlock) ==
    IF hw = "VLP16"
    THEN VLP16Loop(st, pkt, iBlock, 0, VLP16_Hardware.firingSequencesPerBlock - 1)
    ELSE IF hw = "HDL32"
    THEN [st EXCEPT !.firings = DirectCopy(st.firings, pkt, iBlock, HDL32_Hardware)]
    ELSE IF hw = "VLP32C"
    THEN [st EXCEPT !.firings = DirectCopy(st.firings, pkt, iBlock, VLP32C_Hardware)]
    ELSE st

\* rc after a packet was read and stored, line 207
RcAfterPacket(rc) == GLSE_SUCCESS

\* lines 128-207 of pass iBlock: the packet pkt, read from record idx, is
\* checked for the model (pass 0) and stored; c1 is the state after the read
ImplStorePass(c1, iBlock, pkt, idx) ==
    LET hw == IF iBlock = 0 THEN DetectHardware(pkt) ELSE c1.scan.lidarHardware
        kMax == IF iBlock = 0 THEN BlocksPerScanAfterDetect(hw) ELSE c1.kMax
        st == StorePacket([firings |-> c1.scan.firings, azimuthChange |-> c1.azimuthChange],
                          hw, pkt, iBlock)
    IN  [c1 EXCEPT !.scan.lidarHardware = hw,
                   !.scan.firings = st.firings,
                   !.azimuthChange = st.azimuthChange,
                   !.kMax = kMax,
                   !.rc = RcAfterPacket(c1.rc),
                   !.nRead = c1.nRead + 1,
                   !.handed = Append(c1.handed, idx)]

\* lines 125-208 of pass iBlock, r being what readNextDataPacket gave
ImplAfterRead(c, iBlock, r) ==
    LET c1 == [c EXCEPT !.pos = r.pos,
                        !.scan.block_timestamp_us =
                            IF r.tsSet THEN (iBlock :> r.ts) @@ c.scan.block_timestamp_us
                            ELSE c.scan.block_timestamp_us,
                        !.aligned = c.aligned /\ r.aligned,
                        !.depth = IF r.depth > c.depth THEN r.depth ELSE c.depth,
                        !.failAt = IF ~c.failed /\ ~r.ok THEN r.failAt ELSE c.failAt,
                        !.failed = c.failed \/ ~r.ok]
    IN  IF ~r.ok THEN c1
        ELSE ImplStorePass(c1, iBlock, Packet(r.pk), r.idx)

\* One pass of the loop of ImplGetNextLidarScan (lines 123-209), for block
\* iBlock.  c holds the scan, the static azimuthChange, the stream position,
\* kHDLMaxBlocksPerScan, rc, and what the call did: nRead packets read, the
\* records they came from (handed), where the first failing header read
\* began (failAt, -1: none).
ImplStep(f, type, c, iBlock) ==
    ImplAfterRead(c, iBlock, readNextDataPacket(f, c.pos, type, 1))

\* the passes lo..hi, in order (kHDLMaxBlocksPerScan changes in pass 0 only):
\* the passes mid+1..hi start from the value x the passes lo..mid leave
RECURSIVE ImplPasses(_, _, _, _, _)
ImplPasses(f, type, c, lo, hi) ==
    IF lo > hi THEN c
    ELSE IF lo = hi THEN ImplStep(f, type, c, lo)
    ELSE LET mid == (lo + hi) \div 2 IN
         CHOOSE r \in {ImplPasses(f, type, x, mid + 1, hi) :
                          x \in {ImplPasses(f, type, c, lo, mid)}} : TRUE

TimestampAt(bts, i) == IF i \in DOMAIN bts THEN bts[i] ELSE 0

\* line 212: the total scan timestamp
ImplSetTimestamp(c) ==
    [c EXCEPT !.scan.timestamp_us = TimestampAt(c.scan.block_timestamp_us, c.kMax - 1)]

\* the passes after pass 0, which has left c1, and line 212
ImplAfterFirstPass(f, type, c1) ==
    ImplSetTimestamp(ImplPasses(f, type, c1, 1, c1.kMax - 1))

\* ImplGetNextLidarScan(scan, fp)
ImplGetNextLidarScan(f, type, scan, azimuthChange, pos) ==
    ImplAfterFirstPass(f, type,
        ImplStep(f, type,
                 [scan |-> scan, azimuthChange |-> azimuthChange, pos |-> pos,
                  kMax |-> kHDLMaxBlocksPerScanDefault, rc |-> GLSE_FILEIOERR,
                  nRead |-> 0, handed |-> <<>>, aligned |-> TRUE, depth |-> 0,
                  failAt |-> -1, failed |-> FALSE],
                 0))

\* isValidMagicNumber without the two magic numbers of the nanosecond format
isValidMagicNumberMicroOnly(magic) ==
    \/ magic = <<41394, 50132>>     \* 0xa1b2c3d4
    \/ magic = <<54467, 45729>>     \* 0xd4c3b2a1

isValidMagicNumber(magic) ==
    \/ magic = <<41394, 15437>>     \* 0xa1b23c4d
    \/ magic = <<19772, 45729>>     \* 0x4d3cb2a1
    \/ magic = <<41394, 50132>>     \* 0xa1b2c3d4
    \/ magic = <<54467, 45729>>     \* 0xd4c3b2a1

\* lines 366-420 of one pass of the sampling loop, h being the read of the
\* packet header
SampleAfterRead(s, h) ==
    IF ~h.ok THEN [s EXCEPT !.pos = h.pos, !.done = TRUE]      \* feof: stop checking
    ELSE
    LET bIsDataPacket == h.hdr.orig_len = dataPacketLength
        bIsGpsPacket == h.hdr.orig_len = gpsPacketLength
        posOffset == IF bIsDataPacket THEN DataPacketSize
                     ELSE IF bIsGpsPacket THEN PositioningPacketSize
                     ELSE 0
        s1 == IF s.init /\ (bIsDataPacket \/ bIsGpsPacket)
              THEN [s EXCEPT !.deltas = Append(s.deltas,
                                               SubBytes(U32Of(h.hdr.ts_usec), s.last)),
                             !.last = U32Of(h.hdr.ts_usec)]
              ELSE IF bIsDataPacket \/ bIsGpsPacket
              THEN [s EXCEPT !.last = U32Of(h.hdr.ts_usec), !.init = TRUE]
              ELSE s
    IN  [s1 EXCEPT !.pos = h.pos + posOffset,
                   !.aligned = s.aligned /\ h.aligned,
                   !.nHeaders = s.nHeaders + 1]

\* One pass of the sampling loop of determineLiDARTimeScalingType, lines
\* 361-421; s = [pos, init, last, deltas, done], done once the loop was left
\* by its break.  last and the deltas are unsigned ints: the difference of
\* a timestamp and a larger one before it wraps.
SampleStep(f, s) ==
    IF s.done THEN s ELSE SampleAfterRead(s, ReadHeader(f, s.pos))

\* the passes lo..hi of the sampling loop, in order
RECURSIVE SampleLoop(_, _, _, _)
SampleLoop(f, s, lo, hi) ==
    IF lo > hi THEN s
    ELSE IF lo = hi THEN SampleStep(f, s)
    ELSE LET mid == (lo + hi) \div 2 IN
         CHOOSE r \in {SampleLoop(f, x, mid + 1, hi) :
                          x \in {SampleLoop(f, s, lo, mid)}} : TRUE

\* std::accumulate(first, last, 0U): the sum, an unsigned int
RECURSIVE SumRange(_, _, _)
SumRange(q, lo, hi) ==
    IF lo > hi THEN U32Of(0)
    ELSE IF lo = hi THEN q[lo]
    ELSE AddBytes(SumRange(q, lo, (lo + hi) \div 2),
                  SumRange(q, (lo + hi) \div 2 + 1, hi), 0)

SeqSum(q) == SumRange(q, 1, Len(q))
SeqMin(q) == CHOOSE x \in {q[i] : i \in 1 .. Len(q)} : \A j \in 1 .. Len(q) : ~LtBytes(q[j], x)
SeqMax(q) == CHOOSE x \in {q[i] : i \in 1 .. Len(q)} : \A j \in 1 .. Len(q) : ~LtBytes(x, q[j])

\* x >= t and x <= t for an unsigned int x and a threshold t below 2^24
GeSmall(x, t) == x[4] > 0 \/ NatOfBytes(x) >= t
LeSmall(x, t) == x[4] = 0 /\ NatOfBytes(x) <= t

\* The votes of lines 451-504 on the minimum, the maximum and the sum of
\* numEntries deltas.  The mean is the float quotient of the sum and
\* numEntries; against 7.0F and 3.0F it compares as the exact quotient of
\* the unsigned int sum does (numEntries <= 100, and a sum of 2^24 or more
\* exceeds both thresholds before and after its rounding to float).
VotesOf(minDeltaTime, maxDeltaTime, sum, numEntries) ==
    LET minC == GeSmall(minDeltaTime, 5)
        maxC == GeSmall(maxDeltaTime, 25)
        meanC == GeSmall(sum, 7 * numEntries)
        minL == LeSmall(minDeltaTime, 1)
        maxL == LeSmall(maxDeltaTime, 5)
        meanL == LeSmall(sum, 3 * numEntries)
        B(x) == IF x THEN 1 ELSE 0
        correctedTypeVotes == B(minC) + B(maxC) + B(meanC)
        legacyTypeVotes == B(minL) + B(maxL) + B(meanL)
    IN  IF minC /\ maxC /\ meanC THEN "Corrected"
        ELSE IF minL /\ maxL /\ meanL THEN "Legacy"
        ELSE IF correctedTypeVotes > legacyTypeVotes THEN "Corrected"
        ELSE "Legacy"

\* lines 438-505: the statistics of the deltas, and the decision from them
StatisticsDecide(deltas) ==
    VotesOf(SeqMin(deltas), SeqMax(deltas), SeqSum(deltas), Len(deltas))

\* ArbitrateFromDeltas deciding from the statistics of any deltas there are
ArbitrateFromAnyDeltas(deltas) ==
    IF Len(deltas) = 0 THEN "Legacy" ELSE StatisticsDecide(deltas)

\* The decision from the sampled deltas, lines 424-505
ArbitrateFromDeltas(deltas) ==
    IF Len(deltas) <= 1 THEN "Legacy" ELSE StatisticsDecide(deltas)

\* lines 424-508, s being what the sampling loop left
ArbitratedFromSamples(s) ==
    [type |-> ArbitrateFromDeltas(s.deltas), pos |-> s.pos,
     aligned |-> s.aligned, nHeaders |-> s.nHeaders, deltas |-> s.deltas]

\* determineLiDARTimeScalingType deciding every version by its major number
determineLiDARTimeScalingTypeByMajor(pcapVersionMajor, pcapVersionMinor, f, pos) ==
    [type |-> IF pcapVersionMajor >= 2 THEN "Corrected" ELSE "Legacy", pos |-> pos,
     aligned |-> TRUE, nHeaders |-> 0, deltas |-> <<>>]

\* determineLiDARTimeScalingType: the type written to the output, and the
\* stream position it leaves
determineLiDARTimeScalingType(pcapVersionMajor, pcapVersionMinor, f, pos) ==
    IF pcapVersionMajor > 2 \/ (pcapVersionMajor = 2 /\ pcapVersionMinor > 4)
    THEN [type |-> "Corrected", pos |-> pos, aligned |-> TRUE, nHeaders |-> 0,
          deltas |-> <<>>]
    ELSE IF pcapVersionMajor < 2 \/ (pcapVersionMajor = 2 /\ pcapVersionMinor < 4)
    THEN [type |-> "Legacy", pos |-> pos, aligned |-> TRUE, nHeaders |-> 0,
          deltas |-> <<>>]
    ELSE ArbitratedFromSamples(
             SampleLoop(f, [pos |-> pos, init |-> FALSE, last |-> U32Of(0),
                            deltas |-> <<>>, aligned |-> TRUE, nHeaders |-> 0,
                            done |-> FALSE], 0, maxNumPacketsToCheck - 1))

\* rc of GetFirstLidarScan when the global header was read and its magic
\* number is not a valid one, line 261
RcBadMagic == GLSE_FILEFORMAT_ERROR

\* line 252, d being what determineLiDARTimeScalingType left and c the
\* call of ImplGetNextLidarScan
FirstScanResult(d, c, dataStartPos) ==
    [opened |-> TRUE, type |-> d.type, hdrRead |-> TRUE,
     impl |-> [c EXCEPT !.aligned = c.aligned /\ d.aligned],
     startPos |-> dataStartPos, sampled |-> d.nHeaders]

\* FirstScanFrom without the fsetpos of line 250: the first scan is read
\* from where determineLiDARTimeScalingType left the stream
FirstScanFromSampledPos(f, scan, azimuthChange, dataStartPos, d) ==
    FirstScanResult(d, ImplGetNextLidarScan(f, d.type, scan, azimuthChange, d.pos),
                    d.pos)

\* lines 242-252: the stream is set back to dataStartPos, where the first
\* scan is read with the type d holds
FirstScanFrom(f, scan, azimuthChange, dataStartPos, d) ==
    FirstScanResult(d, ImplGetNextLidarScan(f, d.type, scan, azimuthChange, dataStartPos),
                    dataStartPos)

\* GetFirstLidarScan(filename, scan): what the call leaves.  opened: fopen
\* gave a stream (fpLiDAR is then that stream, and nothing here closes it).
GetFirstLidarScan(f, type0, scan, azimuthChange) ==
    LET none == [scan |-> scan, azimuthChange |-> azimuthChange, pos |-> 0,
                 kMax |-> kHDLMaxBlocksPerScanDefault, rc |-> GLSE_FILEIOERR,
                 nRead |-> 0, handed |-> <<>>, aligned |-> TRUE, depth |-> 0,
                 failAt |-> -1, failed |-> FALSE]
    IN
    IF ~f.exists
    THEN [opened |-> FALSE, type |-> type0, hdrRead |-> FALSE, impl |-> none,
          startPos |-> 0, sampled |-> 0]
    ELSE IF f.len < GlobalHdrSize           \* numread != 1
    THEN [opened |-> TRUE, type |-> type0, hdrRead |-> FALSE,
          impl |-> [none EXCEPT !.pos = f.len], startPos |-> f.len, sampled |-> 0]
    ELSE IF ~isValidMagicNumber(f.magic)
    THEN [opened |-> TRUE, type |-> type0, hdrRead |-> TRUE,
          impl |-> [none EXCEPT !.pos = GlobalHdrSize, !.rc = RcBadMagic],
          startPos |-> GlobalHdrSize, sampled |-> 0]
    ELSE FirstScanFrom(f, scan, azimuthChange, GlobalHdrSize,
                       determineLiDARTimeScalingType(f.version_major, f.version_minor,
                                                     f, GlobalHdrSize))

(***************************************************************************)
(* The sensor: VelodyneLidar (LidarFactory.cpp).                           *)
(***************************************************************************)
m_metersPerTick == F32_0p002

\* KeepsReading with the range compared by >= in place of >
KeepsReadingBelow(rawRange, maxRangeMeters) ==
    /\ rawRange # 0
    /\ F32Lt(F32MulU16(rawRange, m_metersPerTick), maxRangeMeters)

\* lines 183-192: the beam reading yields a point
KeepsReading(rawRange, maxRangeMeters) ==
    /\ rawRange # 0
    /\ ~F32Lt(maxRangeMeters, F32MulU16(rawRange, m_metersPerTick))

\* One point of the cloud: the coordinates of lines 194-202 are functions of
\* the firing's azimuth, the beam, the range tick and the reflectivity; at
\* is the place of the reading in the scan, <<firingIdx, beam>>.
PointOf(fr, firingIdx, beam) ==
    [at |-> <<firingIdx, beam>>, azimuth |-> fr.azimuth,
     range |-> fr.v_laser[beam].range, refl |-> fr.v_laser[beam].refl]

(***************************************************************************)
(* The coordinates of a point.  A float of the geometry is held in fixed   *)
(* point: an angle, a cosine, a sine or an intensity v stands for          *)
(* v / 10000, a length v for v millimetres.                                *)
(***************************************************************************)
\* kRadiansPerTick, in units of 10^-8 radian
kRadiansPerTick == 17453
\* m_spinRate = 600.0F * (1.0F / 60.0F * kTwoPi / 1e6F), in units of 10^-8
\* radian per microsecond
m_spinRate == 6283
\* pi / 2
HalfPi == 15708

HDL32_VERTICAL_ANGLES_RAD ==
    <<-5353, -1628, -5119, -1396, -4887, -1162, -4653, -930,
      -4421, -698, -4189, -466, -3957, -232, -3723, 0,
      -3491, 232, -3259, 466, -3025, 698, -2793, 930,
      -2560, 1164, -2327, 1396, -2094, 1628, -1862, 1862>>

VLP16_VERTICAL_ANGLES_RAD ==
    <<-2618, 175, -2269, 524, -1920, 873, -1571, 1222,
      -1222, 1571, -873, 1920, -524, 2269, -175, 2618,
      0, 0, 0, 0, 0, 0, 0, 0, 0, 0, 0, 0, 0, 0, 0, 0>>

\* m_verticalAnglesRad[beam] after the copy of initializeSensor
m_verticalAnglesRad(angles, beam) ==
    IF angles = "VLP16" THEN VLP16_VERTICAL_ANGLES_RAD[beam + 1]
    ELSE HDL32_VERTICAL_ANGLES_RAD[beam + 1]

\* t - t*x2/((k+1)(k+2)) + ..., n terms: the series of the sine (t = x,
\* k = 1) and of the cosine (t = 1, k = 0), x2 being the square of x
RECURSIVE SeriesOf(_, _, _, _)
SeriesOf(t, x2, k, n) ==
    IF n = 0 \/ t = 0 THEN 0
    ELSE t - SeriesOf((t * x2) \div (10000 * (k + 1) * (k + 2)), x2, k + 2, n - 1)

\* sine and cosine of an angle of the first quadrant
SinOfAcute(x) == SeriesOf(x, (x * x) \div 10000, 1, 7)
CosOfAcute(x) == SeriesOf(10000, (x * x) \div 10000, 0, 7)

Negated(v) == 0 - v
Magnitude(v) == IF v < 0 THEN 0 - v ELSE v

\* std::cos(a) and std::sin(a), a of either sign
CosOfTurned(q, x) ==
    IF q = 0 THEN CosOfAcute(x) ELSE IF q = 1 THEN Negated(SinOfAcute(x))
    ELSE IF q = 2 THEN Negated(CosOfAcute(x)) ELSE SinOfAcute(x)
SinOfTurned(q, x) ==
    IF q = 0 THEN SinOfAcute(x) ELSE IF q = 1 THEN CosOfAcute(x)
    ELSE IF q = 2 THEN Negated(SinOfAcute(x)) ELSE Negated(CosOfAcute(x))
StdCos(a) == CosOfTurned((Magnitude(a) \div HalfPi) % 4, Magnitude(a) % HalfPi)
StdSin(a) ==
    IF a < 0 THEN Negated(SinOfTurned((Magnitude(a) \div HalfPi) % 4, Magnitude(a) % HalfPi))
    ELSE SinOfTurned((a \div HalfPi) % 4, a % HalfPi)

\* a * b of two fixed-point factors, rounded to nearest
FixMul(a, b) == (a * b + 5000) \div 10000

\* line 178: static_cast<float>(currentFiring.azimuth) * kRadiansPerTick
BaseThetaOf(azimuth) == (azimuth * kRadiansPerTick + 5000) \div 10000

\* line 195: baseTheta + m_spinRate * static_cast<float>(beam) *
\* m_microsecondsPerLaserFiring (usPerFiring in thousandths of a microsecond)
ThetaOf(azimuth, beam, usPerFiring) ==
    BaseThetaOf(azimuth) + (m_spinRate * beam * usPerFiring + 5000000) \div 10000000

\* line 188: static_cast<float>(rawRange) * m_metersPerTick, in millimetres
RangeMillimetres(rawRange) == rawRange * 2

\* line 199 with the sign of the product left out
CoordinateYUnsigned(rangeMm, cosPhi, theta) == FixMul(FixMul(rangeMm, cosPhi), StdSin(theta))

\* line 199: y = -rangeMeters * cosPhi * std::sin(theta)
CoordinateY(rangeMm, cosPhi, theta) ==
    FixMul(FixMul(Negated(rangeMm), cosPhi), StdSin(theta))

\* lines 188-202: the point pushed for the reading p of a sensor whose table
\* of vertical angles is angles
EmittedPoint(p, angles, usPerFiring) ==
    LET beam == p.at[2]
        rangeMm == RangeMillimetres(p.range)
        phi == m_verticalAnglesRad(angles, beam)
        theta == ThetaOf(p.azimuth, beam, usPerFiring)
        cosPhi == StdCos(phi)
    IN  [x |-> FixMul(FixMul(rangeMm, cosPhi), StdCos(theta)),
         y |-> CoordinateY(rangeMm, cosPhi, theta),
         z |-> FixMul(rangeMm, StdSin(phi)),
         intensity |-> (p.refl * 10000) \div 255]

\* the beam loop, lines 180-203; kept holds the range ticks of the scan for
\* which KeepsReading holds
PointsOfFiring(fr, firingIdx, cfg, kept) ==
    LET beams == SelectSeq([j \in 1 .. cfg.numBeams |-> j - 1],
                           LAMBDA b : fr.v_laser[b].range \in kept)
    IN  [j \in 1 .. Len(beams) |-> PointOf(fr, firingIdx, beams[j])]

\* the firings lo..hi, in order; zeroPts is what the beam loop yields on a
\* zero-initialised firing
RECURSIVE GeometryOfRange(_, _, _, _, _, _)
GeometryOfRange(firings, cfg, kept, zeroPts, lo, hi) ==
    IF lo > hi THEN <<>>
    ELSE IF lo = hi
    THEN IF lo \in DOMAIN firings
         THEN PointsOfFiring(firings[lo], lo, cfg, kept)
         ELSE [j \in 1 .. Len(zeroPts) |-> [zeroPts[j] EXCEPT !.at = <<lo, zeroPts[j].at[2]>>]]
    ELSE LET mid == (lo + hi) \div 2 IN
         GeometryOfRange(firings, cfg, kept, zeroPts, lo, mid)
         \o GeometryOfRange(firings, cfg, kept, zeroPts, mid + 1, hi)

\* the block and firing loops, lines 172-205; kept holds the range ticks of
\* the scan for which KeepsReading holds
GeometryOfKept(firings, cfg, kept) ==
    GeometryOfRange(firings, cfg, kept, PointsOfFiring(ZeroFiring, 0, cfg, kept),
                    0, cfg.blocksPerScan * cfg.firingSequencesPerBlock - 1)

\* populateGeometry(destination) on a cleared destination.  The test of
\* lines 183-192 is made once for each range tick the scan holds.
populateGeometry(firings, cfg, maxRangeMeters) ==
    GeometryOfKept(firings, cfg,
                   {t \in {0} \cup {firings[i].v_laser[b].range :
                                       i \in DOMAIN firings, b \in 0 .. LasersPerBlock - 1} :
                       KeepsReading(t, maxRangeMeters)})

\* the switch of initializeSensor, lines 136-157: the configuration, the
\* table of vertical angles and the microseconds per laser firing (in
\* thousandths) in use after it; the default branch writes only the first two
SensorSetupFor(lidarHardware, usBefore) ==
    IF lidarHardware = "HDL32"
    THEN [config |-> HDL32_Hardware, angles |-> "HDL32", usPerFiring |-> 1152]
    ELSE IF lidarHardware = "VLP16"
    THEN [config |-> VLP16_Hardware, angles |-> "VLP16", usPerFiring |-> 2304]
    ELSE [config |-> HDL32_Hardware, angles |-> "HDL32", usPerFiring |-> usBefore]

VARIABLES
    file,               \* the capture at m_pcapPath
    pathEmpty,          \* m_pcapPath.empty()
    fpState,            \* fpLiDAR: "null", "open", or "closed" (fclose'd, not reset)
    fpos,               \* the stream position of fpLiDAR
    openStreams,        \* streams fopen gave that no fclose has closed
    gPcapLidarTimeScalingType,
    azimuthChange,      \* the static of ImplGetNextLidarScan
    m_scan, m_config, m_angles, m_usPerFiring, m_maxRangeMeters,
    m_initialized, m_pendingScan,
    destination, timestamp_us,   \* the caller's arguments of readNextScan
    lastOp,             \* "none", "configure", "read"
    ret,                \* what the last readNextScan returned
    api,                \* the last call of the reader: what it did and returned
    pend,               \* the call that assembled the scan m_scan holds
    deliv,              \* the call that assembled the scan last delivered
    handed,             \* records handed to the assembler since the open
    nTrue,              \* readNextScan calls that returned true since the open
    nCalls,
    fnIn, fnOut,        \* a function of the reader called on its own: the
                        \* arguments, and what the call returned
    hasSensor,          \* LidarEngine: m_sensor is not null
    engPc,              \* where LidarEngine::run is: "none" (no engine),
                        \* "start", "query" (at the condition of the loop),
                        \* "capture", "update", "render", "done" (returned)
    m_readIndex, m_latestTimestamp, m_pointBuffers,
    closeRequested,     \* what windowShouldClose() returns
    sinkPoints,         \* the cloud updatePoints was last called with
    sinkUpdates,        \* calls of updatePoints
    nCycles,            \* passes of the loop begun
    nQueries            \* calls of windowShouldClose

sensorVars == <<file, pathEmpty, fpState, fpos, openStreams, gPcapLidarTimeScalingType,
          azimuthChange, m_scan, m_config, m_angles, m_usPerFiring,
          m_maxRangeMeters, m_initialized, m_pendingScan, destination,
          timestamp_us, lastOp, ret, api, pend, deliv, handed, nTrue, nCalls>>

fnVars == <<fnIn, fnOut>>

engineVars == <<hasSensor, engPc, m_readIndex, m_latestTimestamp, m_pointBuffers,
                closeRequested, sinkPoints, sinkUpdates, nCycles, nQueries>>

vars == <<sensorVars, fnVars, engineVars>>

NoApi == [op |-> "none", rc |-> GLSE_FILEIOERR, nRead |-> 0,
          kMax |-> kHDLMaxBlocksPerScanDefault, failAt |-> -1, startPos |-> 0,
          hdrRead |-> FALSE, recs |-> <<>>, aligned |-> TRUE, depth |-> 0,
          hw |-> "VLP16", sampled |-> 0]

ApiOf(op, c, startPos, hdrRead) ==
    [op |-> op, rc |-> c.rc, nRead |-> c.nRead, kMax |-> c.kMax,
     failAt |-> c.failAt, startPos |-> startPos, hdrRead |-> hdrRead,
     recs |-> c.handed, aligned |-> c.aligned, depth |-> c.depth,
     hw |-> c.scan.lidarHardware, sampled |-> 0]

\* m_scan{}
ZeroScan == [lidarHardware |-> "VLP16", timestamp_us |-> 0,
             block_timestamp_us |-> <<>>, firings |-> <<>>]

\* finalizeSensor, entered with m_initialized: EndLidarEnumeration closes
\* the stream and leaves fpLiDAR as it is
Finalize ==
    /\ fpState' = IF fpState = "open" THEN "closed" ELSE fpState
    /\ openStreams' = IF fpState = "open" THEN openStreams - 1 ELSE openStreams
    /\ m_initialized' = FALSE
    /\ m_pendingScan' = FALSE

\* initializeSensor, entered with ~m_initialized
InitializeSensor ==
    IF pathEmpty
    THEN UNCHANGED <<fpState, fpos, openStreams, gPcapLidarTimeScalingType,
                     azimuthChange, m_scan, m_config, m_angles, m_usPerFiring,
                     m_initialized, m_pendingScan, api, pend, handed, nTrue>>
    ELSE
    \E g \in {GetFirstLidarScan(file, gPcapLidarTimeScalingType, m_scan, azimuthChange)} :
    LET c == g.impl
        setup == SensorSetupFor(c.scan.lidarHardware, m_usPerFiring)
    IN  /\ fpState' = IF g.opened THEN "open" ELSE "null"
        /\ openStreams' = IF g.opened THEN openStreams + 1 ELSE openStreams
        /\ fpos' = c.pos
        /\ gPcapLidarTimeScalingType' = g.type
        /\ azimuthChange' = c.azimuthChange
        /\ m_scan' = c.scan
        /\ api' = [ApiOf("first", c, g.startPos, g.hdrRead) EXCEPT !.sampled = g.sampled]
        /\ handed' = c.handed
        /\ nTrue' = 0
        /\ IF c.rc # GLSE_SUCCESS
           THEN UNCHANGED <<m_config, m_angles, m_usPerFiring, m_initialized,
                            m_pendingScan, pend>>
           ELSE /\ m_initialized' = TRUE
                /\ m_pendingScan' = TRUE
                /\ m_config' = setup.config
                /\ m_angles' = setup.angles
                /\ m_usPerFiring' = setup.usPerFiring
                /\ pend' = api'

\* the values configure is called with (max_range_m)
MaxRangeInputs == {F32Zero, F32_1, F32_120}

\* VelodyneLidar::configure(vertical_fov_deg, max_range_m); m_verticalFovDeg
\* is stored and never read
ConfigureCall(max_range_m) ==
    /\ lastOp' = "configure"
    /\ m_maxRangeMeters' = F32Max(F32_0p01, max_range_m)
    /\ IF ~m_initialized
       THEN InitializeSensor
       ELSE UNCHANGED <<fpState, fpos, openStreams, gPcapLidarTimeScalingType,
                        azimuthChange, m_scan, m_config, m_angles, m_usPerFiring,
                        m_initialized, m_pendingScan, api, pend, handed, nTrue>>
    /\ UNCHANGED <<file, pathEmpty, destination, timestamp_us, ret, deliv>>

\* a call of configure by the owner of the sensor
Configure(max_range_m) ==
    /\ nCalls < MaxCalls
    /\ nCalls' = nCalls + 1
    /\ ConfigureCall(max_range_m)

\* readNextScan filling the destination after the call of GetNextLidarScan
ScanDeliveredAfterPrefetch(pending, prefetched) == prefetched

\* lines 102-106: populateGeometry and the copy of the timestamp come before
\* GetNextLidarScan overwrites m_scan, so they read the pending scan
ScanDelivered(pending, prefetched) == pending

\* VelodyneLidar::readNextScan(destination, timestamp_us)
ReadNextScanCall ==
    /\ lastOp' = "read"
    /\ IF ~m_initialized \/ ~m_pendingScan
       THEN /\ ret' = FALSE
            /\ UNCHANGED <<fpState, fpos, openStreams, azimuthChange, m_scan,
                           m_initialized, m_pendingScan, destination,
                           timestamp_us, api, pend, deliv, handed, nTrue>>
       ELSE \E c \in {ImplGetNextLidarScan(file, gPcapLidarTimeScalingType,
                                              m_scan, azimuthChange, fpos)} :
                /\ destination' = populateGeometry(ScanDelivered(m_scan, c.scan).firings,
                                                   m_config, m_maxRangeMeters)
                /\ timestamp_us' = ScanDelivered(m_scan, c.scan).timestamp_us
                /\ deliv' = pend
                /\ m_scan' = c.scan
                /\ azimuthChange' = c.azimuthChange
                /\ fpos' = c.pos
                /\ api' = ApiOf("next", c, fpos, TRUE)
                /\ handed' = handed \o c.handed
                /\ nTrue' = nTrue + 1
                /\ ret' = TRUE
                /\ IF c.rc # GLSE_SUCCESS
                   THEN Finalize /\ pend' = pend
                   ELSE /\ m_pendingScan' = TRUE
                        /\ pend' = api'
                        /\ UNCHANGED <<fpState, openStreams, m_initialized>>
    /\ UNCHANGED <<file, pathEmpty, gPcapLidarTimeScalingType, m_config,
                   m_angles, m_usPerFiring, m_maxRangeMeters>>

\* a call of readNextScan by the owner of the sensor
ReadNextScan ==
    /\ nCalls < MaxCalls
    /\ nCalls' = nCalls + 1
    /\ ReadNextScanCall

(***************************************************************************)
(* LidarEngine: the replay loop over the sensor and the visualizer.        *)
(***************************************************************************)
\* passes of the loop of run that are followed
MaxCycles == 3

\* the condition that ends the loop of run, line 37; readOk is what the
\* readNextScan of the pass before returned
LoopEndsOnFailedRead(shouldClose, readOk) == shouldClose \/ ~readOk

LoopEnds(shouldClose, readOk) == shouldClose

\* the flip of line 45 left out
SameReadIndex(readIndex) == readIndex

\* (m_readIndex + 1U) % m_pointBuffers.size(), line 45
NextReadIndex(readIndex) == (readIndex + 1) % 2

\* run up to its loop, lines 32-35, with initialize, lines 17-28; ok is
\* what m_visualizer.initialize() returns
EngineInitialize ==
    /\ engPc = "start"
    /\ IF ~hasSensor
       THEN /\ engPc' = "done"
            /\ UNCHANGED sensorVars
       ELSE /\ ConfigureCall(F32_120)
            /\ UNCHANGED nCalls
            /\ \E ok \in BOOLEAN : engPc' = IF ok THEN "query" ELSE "done"
    /\ UNCHANGED <<hasSensor, m_readIndex, m_latestTimestamp, m_pointBuffers,
                   closeRequested, sinkPoints, sinkUpdates, nCycles, nQueries>>

\* the condition of the loop, line 37
LoopQuery ==
    /\ engPc = "query"
    /\ closeRequested \/ nCycles < MaxCycles
    /\ nQueries' = nQueries + 1
    /\ IF LoopEnds(closeRequested, ret \/ nCycles = 0)
       THEN engPc' = "done" /\ nCycles' = nCycles
       ELSE engPc' = "capture" /\ nCycles' = nCycles + 1
    /\ UNCHANGED <<sensorVars, hasSensor, m_readIndex, m_latestTimestamp,
                   m_pointBuffers, closeRequested, sinkPoints, sinkUpdates>>

\* captureFrame with the timestamp stored whatever the read returned
LatestTimestampStored(readOk, timestamp, latest) ==
    IF readOk THEN timestamp ELSE 0

\* lines 62-68: m_latestTimestamp after captureFrame, timestamp being what
\* readNextScan left in the local it was given
LatestTimestampAfter(readOk, timestamp, latest) ==
    IF readOk THEN timestamp ELSE latest

\* captureFrame, lines 56-69: the buffer is cleared, then handed to
\* readNextScan as its destination
CaptureFrame ==
    /\ engPc = "capture"
    /\ ReadNextScanCall
    /\ UNCHANGED nCalls
    /\ m_pointBuffers' = [m_pointBuffers EXCEPT
                            ![m_readIndex] = IF ret' THEN destination' ELSE <<>>]
    /\ m_latestTimestamp' = LatestTimestampAfter(ret', timestamp_us', m_latestTimestamp)
    /\ engPc' = "update"
    /\ UNCHANGED <<hasSensor, m_readIndex, closeRequested, sinkPoints, sinkUpdates,
                   nCycles, nQueries>>

\* m_visualizer.updatePoints(m_pointBuffers[m_readIndex]), line 42
UpdatePoints ==
    /\ engPc = "update"
    /\ sinkPoints' = m_pointBuffers[m_readIndex]
    /\ sinkUpdates' = sinkUpdates + 1
    /\ engPc' = "render"
    /\ UNCHANGED <<sensorVars, hasSensor, m_readIndex, m_latestTimestamp,
                   m_pointBuffers, closeRequested, nCycles, nQueries>>

\* render, the flip of the buffers and the rest of the frame time, lines 43-52
RenderAndFlip ==
    /\ engPc = "render"
    /\ m_readIndex' = NextReadIndex(m_readIndex)
    /\ engPc' = "query"
    /\ UNCHANGED <<sensorVars, hasSensor, m_latestTimestamp, m_pointBuffers,
                   closeRequested, sinkPoints, sinkUpdates, nCycles, nQueries>>

\* the user asks the window to close, at any time while run is in its loop
RequestClose ==
    /\ engPc \in {"query", "capture", "update", "render"}
    /\ ~closeRequested
    /\ closeRequested' = TRUE
    /\ UNCHANGED <<sensorVars, hasSensor, engPc, m_readIndex, m_latestTimestamp,
                   m_pointBuffers, sinkPoints, sinkUpdates, nCycles, nQueries>>

(***************************************************************************)
(* The captures the sensor is run on.                                      *)
(***************************************************************************)
StdMagic == <<41394, 50132>>

PkHDL32 == [fhi |-> 33, flo |-> 55, azp |-> <<100, 19, 36000>>, pat |-> "mix"]
PkVLP16 == [fhi |-> 34, flo |-> 55, azp |-> <<35570, 41, 36000>>, pat |-> "mix"]
PkVLP32C == [fhi |-> 40, flo |-> 55, azp |-> <<100, 19, 36000>>, pat |-> "near"]
PkUnknown == [fhi |-> 0, flo |-> 55, azp |-> <<100, 19, 36000>>, pat |-> "mix"]

DataRec(pk) == Rec(1, 0, DataPacketSize, dataPacketLength, pk)
GpsRec == Rec(1, 0, PositioningPacketSize, gpsPacketLength, NoPk)
\* a record of another length, saved in full
OtherRec == Rec(1, 0, 32, 32, NoPk)
\* a frame of 2512 octets of which the capture saved the first 1248
CutRec == Rec(1, 0, 1248, 2512, NoPk)

\* the capture time of record i advances by step microseconds per record
Stamped(rs, step) == [i \in 1 .. Len(rs) |-> [rs[i] EXCEPT !.ts_usec = step * i]]

Letters == {DataRec(PkHDL32), GpsRec, OtherRec, CutRec}

RecLists == UNION {[1 .. n -> Letters] : n \in 0 .. MaxRecs}

\* the skip over a record whose saved bytes are fewer than its length ends
\* on a record boundary or behind the end of the file
LandsOnBoundary(rs) ==
    \A i \in 1 .. Len(rs) :
        rs[i].orig_len # rs[i].incl_len =>
            \/ i = Len(rs)
            \/ /\ rs[i].orig_len - rs[i].incl_len = RecHdrSize + rs[i + 1].incl_len
            \/ rs[i].orig_len - rs[i].incl_len > EndOfRecs(rs) - OffsetOf(rs, i + 1)

EnumeratedFiles ==
    {MkFile(TRUE, StdMagic, 2, 5, Stamped(rs, 10), 0) :
        rs \in {q \in RecLists : LandsOnBoundary(q)}}

AzimuthProfiles == {<<100, 19, 36000>>, <<35990, 41, 36000>>, <<35570, 41, 36000>>,
                    <<17, 0, 36000>>, <<500, 35990, 36000>>, <<65000, 100, 65536>>,
                    <<0, 5957, 65536>>}

VLP16Files ==
    {MkFile(TRUE, StdMagic, 2, 5,
            Stamped(<<DataRec(PkVLP16), DataRec([PkVLP16 EXCEPT !.azp = a, !.pat = p])>>, 10), 0) :
        a \in AzimuthProfiles, p \in {"mix", "near"}}

Magics == {<<41394, 15437>>, <<19772, 45729>>, <<41394, 50132>>, <<54467, 45729>>,
           <<0, 0>>, <<41394, 50133>>, <<50132, 41394>>, <<54467, 45728>>,
           <<15437, 41394>>, <<45729, 54467>>, <<65535, 65535>>}

TwoHDL32 == <<DataRec(PkHDL32), DataRec([PkHDL32 EXCEPT !.pat = "near"])>>

HeaderFiles ==
    {MkFile(TRUE, m, 2, 5, Stamped(TwoHDL32, 10), 0) : m \in Magics}
    \cup {MkFile(FALSE, StdMagic, 2, 5, <<>>, 0),      \* no file at the path
          MkFile(TRUE, StdMagic, 2, 5, <<>>, 14)}     \* 10 bytes long

Versions == {<<1, 0>>, <<2, 3>>, <<2, 4>>, <<2, 5>>, <<3, 0>>}
TsSteps == {0, 1, 4, 10, 30}

\* captures of two data packets, of each version
TwoHDL32Files ==
    {MkFile(TRUE, StdMagic, v[1], v[2], Stamped(TwoHDL32, 10), 0) : v \in Versions}

\* captures of each version; those of version 2.4, whose timestamps are
\* sampled, with each step of the capture time
VersionFiles ==
    {MkFile(TRUE, StdMagic, v[1], v[2],
            Stamped(<<DataRec(PkHDL32), GpsRec, DataRec(PkHDL32), OtherRec,
                      DataRec(PkHDL32)>>, st), 0) :
        v \in Versions, st \in TsSteps} \ 
    {MkFile(TRUE, StdMagic, v[1], v[2],
            Stamped(<<DataRec(PkHDL32), GpsRec, DataRec(PkHDL32), OtherRec,
                      DataRec(PkHDL32)>>, st), 0) :
        v \in Versions \ {<<2, 4>>}, st \in TsSteps \ {10}}

\* files that end inside their last record
CutFiles ==
    {MkFile(TRUE, StdMagic, 2, 5, Stamped(TwoHDL32, 10), cut) : cut \in {600, 1248, 1256}}
    \cup {MkFile(TRUE, StdMagic, 2, 5, Stamped(<<DataRec(PkVLP16)>>, 10), 600)}

\* two data packets of one model, the first with each kind of readings
ModelFiles ==
    {MkFile(TRUE, StdMagic, 2, 5,
            Stamped(<<DataRec([pk EXCEPT !.pat = p]), DataRec([pk EXCEPT !.pat = "near"])>>, 10), 0) :
        pk \in {PkHDL32, PkVLP16, PkVLP32C, PkUnknown}, p \in {"mix", "near", "one", "zero"}}

\* packets of two models in one capture
MixedFiles ==
    {MkFile(TRUE, StdMagic, 2, 5, Stamped(<<DataRec(pk[1]), DataRec(pk[2])>>, 10), 0) :
        pk \in {<<PkHDL32, PkVLP16>>, <<PkVLP16, PkHDL32>>,
                 <<PkUnknown, PkHDL32>>, <<PkVLP32C, PkVLP16>>}}

\* one packet more than a complete VLP16 scan, a position packet among them;
\* the packet behind the complete scan carries the trailer of each model,
\* and the capture is of a version of each timestamp scaling
LongFiles ==
    {MkFile(TRUE, StdMagic, 2, lv[2],
            Stamped([i \in 1 .. VLP16_Hardware.blocksPerScan + 2 |->
                       IF i = 3 THEN GpsRec
                       ELSE IF i = VLP16_Hardware.blocksPerScan + 2
                       THEN DataRec([lv[1] EXCEPT !.azp = <<(i * 473) % 36000, 39, 36000>>,
                                                 !.pat = "near"])
                       ELSE DataRec([PkVLP16 EXCEPT !.azp = <<(i * 473) % 36000, 39, 36000>>,
                                                    !.pat = IF i % 2 = 0 THEN "near" ELSE "one"])],
                    10), 0) :
        lv \in {<<PkVLP16, 5>>, <<PkHDL32, 5>>, <<PkVLP16, 3>>}}

\* a capture of version 2.4 with more records than the sampling inspects:
\* data packets and position packets in turn
SampledRecs == maxNumPacketsToCheck + 2

LongSampledFiles ==
    {MkFile(TRUE, StdMagic, 2, 4,
            Stamped([i \in 1 .. SampledRecs |->
                       IF i % 2 = 0 THEN GpsRec
                       ELSE DataRec([PkHDL32 EXCEPT !.pat = IF i = 1 THEN "one" ELSE "zero"])],
                    10), 0)}

Files == EnumeratedFiles \cup VLP16Files \cup HeaderFiles \cup VersionFiles
         \cup CutFiles \cup ModelFiles \cup MixedFiles \cup LongFiles
         \cup LongSampledFiles

\* no function of the reader is called on its own
NoFn == [fn |-> "none"]
NoFnCall == fnIn = NoFn /\ fnOut = NoFn

\* the members of a LidarEngine as its constructor leaves them, lines 10-15
InitEngineMembers ==
    /\ m_readIndex = 0
    /\ m_latestTimestamp = 0
    /\ m_pointBuffers = [i \in {0, 1} |-> <<>>]
    /\ closeRequested = FALSE
    /\ sinkPoints = <<>>
    /\ sinkUpdates = 0
    /\ nCycles = 0
    /\ nQueries = 0

\* the sensor has no engine over it
NoEngine == hasSensor = TRUE /\ engPc = "none" /\ InitEngineMembers

InitSensor ==
    /\ fpState = "null"
    /\ fpos = 0
    /\ openStreams = 0
    /\ gPcapLidarTimeScalingType = "Corrected"
    /\ azimuthChange = 0
    /\ m_scan = ZeroScan
    /\ m_config = HDL32_Hardware
    /\ m_angles = "HDL32"
    /\ m_usPerFiring = 1152
    /\ m_maxRangeMeters = F32_120
    /\ m_initialized = FALSE
    /\ m_pendingScan = FALSE
    /\ destination = <<>>
    /\ timestamp_us = 0
    /\ lastOp = "none"
    /\ ret = FALSE
    /\ api = NoApi
    /\ pend = NoApi
    /\ deliv = NoApi
    /\ handed = <<>>
    /\ nTrue = 0
    /\ nCalls = 0

\* a sensor constructed on the path of a capture, or on the empty path
\* (which names no file)
Init ==
    /\ \/ file \in Files /\ pathEmpty = FALSE
       \/ file = MkFile(FALSE, StdMagic, 2, 5, <<>>, 0) /\ pathEmpty = TRUE
    /\ InitSensor
    /\ NoFnCall
    /\ NoEngine

Next ==
    \/ (\E r \in MaxRangeInputs : Configure(r)) /\ UNCHANGED <<fnVars, engineVars>>
    \/ ReadNextScan /\ UNCHANGED <<fnVars, engineVars>>

Spec == Init /\ [][Next]_vars

(***************************************************************************)
(* The sensor opened on captures of one data packet, for every value of    *)
(* the high byte of the trailer.                                           *)
(***************************************************************************)
TrailerLowBytes == {0, 55, 128, 255}

DetectFiles ==
    {MkFile(TRUE, StdMagic, 2, 5,
            Stamped(<<DataRec([PkHDL32 EXCEPT !.fhi = h, !.flo = l, !.pat = "one"])>>, 10), 0) :
        h \in 0 .. 255, l \in TrailerLowBytes}

InitDetect ==
    /\ file \in DetectFiles
    /\ pathEmpty = FALSE
    /\ InitSensor
    /\ NoFnCall
    /\ NoEngine

NextDetect == (\E r \in {F32_120} : Configure(r)) /\ UNCHANGED <<fnVars, engineVars>>

SpecDetect == InitDetect /\ [][NextDetect]_vars

(***************************************************************************)
(* The functions of the reader that the unit tests call on their own:      *)
(* getPCAPVersionDependentLiDARTimestamp and determineLiDARTimeScalingType *)
(* (with the decision from the sampled deltas of the latter).              *)
(***************************************************************************)
PCAPLiDARTimeScalingType == {"Legacy", "Corrected"}

\* unsigned ints around the values where a product by 1000 or by 1000000
\* passes 2^32, and the ends of the type
U32Samples ==
    {U32Of(x) : x \in {0, 1, 2, 3, 500, 4294, 4295, 999999, 4294967, 4294968,
                       1700000000}}
    \cup {<<0, 0, 0, 128>>, <<255, 255, 255, 255>>}

TimestampCalls ==
    {[fn |-> "timestamp", sec |-> a, usec |-> b, type |-> t] :
        a \in U32Samples, b \in U32Samples, t \in PCAPLiDARTimeScalingType}

\* fpLiDAR == nullptr
NullStream == [null |-> TRUE]

VersionNumbers == {0, 1, 2, 3, 4, 5, 65535}

\* the records of captures of version 2.4: up to MaxSampleRecs of them
MaxSampleRecs == 3
SampleLetters == {DataRec([PkHDL32 EXCEPT !.pat = "one"]), GpsRec, OtherRec}
SampleSteps == {1, 30}

\* the microsecond fields of captures whose records pass a full second
WrappingStamps == {<<5, 0, 5, 6>>, <<999990, 0, 999995>>, <<7, 2, 1, 0>>}

ScalingFiles ==
    {MkFile(TRUE, StdMagic, 2, 4, Stamped(rs, st), 0) :
        rs \in UNION {[1 .. n -> SampleLetters] : n \in 0 .. MaxSampleRecs},
        st \in SampleSteps}
    \cup {MkFile(TRUE, StdMagic, 2, 4,
                 [i \in 1 .. Len(u) |-> [DataRec([PkHDL32 EXCEPT !.pat = "one"])
                                           EXCEPT !.ts_usec = u[i], !.ts_sec = i]], 0) :
             u \in WrappingStamps}
    \cup {MkFile(TRUE, StdMagic, 2, 4, Stamped(TwoHDL32, 30), cut) : cut \in {1248, 1256}}
    \cup {f \in VersionFiles : f.version_major = 2 /\ f.version_minor = 4}
    \cup LongSampledFiles

\* the calls of the tests (a null stream) and those of GetFirstLidarScan (the
\* stream behind the global header); out is what the output holds before
ScalingCalls ==
    {[fn |-> "scaling", major |-> v[1], minor |-> v[2], stream |-> NullStream,
      pos |-> 0, out |-> o] :
        v \in (VersionNumbers \X VersionNumbers) \ {<<2, 4>>},
        o \in PCAPLiDARTimeScalingType}
    \cup {[fn |-> "scaling", major |-> f.version_major, minor |-> f.version_minor,
           stream |-> f, pos |-> GlobalHdrSize, out |-> o] :
             f \in ScalingFiles \cup TwoHDL32Files, o \in PCAPLiDARTimeScalingType}

\* deltas around the thresholds of the votes, and wrapped differences
DeltaSamples ==
    {U32Of(x) : x \in {0, 1, 2, 3, 4, 5, 6, 7, 8, 24, 25, 26}}
    \cup {<<251, 255, 255, 255>>, <<255, 255, 255, 255>>}

MaxDeltas == 3

ArbitrateCalls ==
    {[fn |-> "arbitrate", deltas |-> d] :
        d \in UNION {[1 .. n -> DeltaSamples] : n \in 0 .. MaxDeltas}}

\* readings of one beam: the firing's azimuth, the beam, the range tick and
\* the reflectivity, on a sensor set up for either hardware
AzimuthSamples == {0, 1, 4500, 9000, 17999, 18000, 27000, 35999, 65535}
RangeSamples == {1, 500, 5000, 65535}
ReflSamples == {0, 128, 255}
GeometryCalls ==
    {[fn |-> "geometry", azimuth |-> az, beam |-> b, range |-> r, refl |-> i,
      angles |-> hw, usPerFiring |-> SensorSetupFor(hw, 1152).usPerFiring] :
        az \in AzimuthSamples, b \in {0, 1, 15}, r \in RangeSamples,
        i \in ReflSamples, hw \in {"HDL32", "VLP16"}}
    \cup
    {[fn |-> "geometry", azimuth |-> az, beam |-> 31, range |-> r, refl |-> 128,
      angles |-> "HDL32", usPerFiring |-> 1152] :
        az \in AzimuthSamples, r \in RangeSamples}

\* the firing that holds the reading c at its beam
FiringOfCall(c) ==
    [ZeroFiring EXCEPT !.azimuth = c.azimuth,
                       !.v_laser[c.beam] = [range |-> c.range, refl |-> c.refl]]

InitFn ==
    /\ file = MkFile(FALSE, StdMagic, 2, 5, <<>>, 0)
    /\ pathEmpty = TRUE
    /\ InitSensor
    /\ fnIn \in TimestampCalls \cup ScalingCalls \cup ArbitrateCalls \cup GeometryCalls
    /\ fnOut = NoFn
    /\ NoEngine

\* getPCAPVersionDependentLiDARTimestamp(sec, usec, type)
CallTimestamp ==
    /\ fnIn.fn = "timestamp" /\ fnOut = NoFn
    /\ fnOut' = [fn |-> "timestamp",
                 timestamp_us |-> getPCAPVersionDependentLiDARTimestamp(
                                      fnIn.sec, fnIn.usec, fnIn.type)]
    /\ UNCHANGED <<sensorVars, fnIn, engineVars>>

\* determineLiDARTimeScalingType(major, minor, fpLiDAR, &type): what the call
\* leaves in type, and where it leaves the stream
CallScaling ==
    /\ fnIn.fn = "scaling" /\ fnOut = NoFn
    /\ \E d \in {determineLiDARTimeScalingType(fnIn.major, fnIn.minor,
                                                fnIn.stream, fnIn.pos)} :
           fnOut' = [fn |-> "scaling", type |-> d.type, pos |-> d.pos,
                     nHeaders |-> d.nHeaders, deltas |-> d.deltas]
    /\ UNCHANGED <<sensorVars, fnIn, engineVars>>

\* the decision of determineLiDARTimeScalingType from the deltas it sampled
CallArbitrate ==
    /\ fnIn.fn = "arbitrate" /\ fnOut = NoFn
    /\ fnOut' = [fn |-> "arbitrate", type |-> ArbitrateFromDeltas(fnIn.deltas)]
    /\ UNCHANGED <<sensorVars, fnIn, engineVars>>

\* the body of the beam loop of populateGeometry on one reading that is kept
CallGeometry ==
    /\ fnIn.fn = "geometry" /\ fnOut = NoFn
    /\ fnOut' = [fn |-> "geometry",
                 point |-> EmittedPoint(PointOf(FiringOfCall(fnIn), 0, fnIn.beam),
                                        fnIn.angles, fnIn.usPerFiring)]
    /\ UNCHANGED <<sensorVars, fnIn, engineVars>>

NextFn == CallTimestamp \/ CallScaling \/ CallArbitrate \/ CallGeometry

SpecFn == InitFn /\ [][NextFn]_vars

(***************************************************************************)
(* LidarEngine::run on a sensor over a capture, or on no sensor.           *)
(***************************************************************************)
\* a capture of exactly one whole scan of VLP16, a single beam of its first
\* packet having an echo
OneScanFile ==
    MkFile(TRUE, StdMagic, 2, 5,
           Stamped([i \in 1 .. VLP16_Hardware.blocksPerScan |->
                      DataRec([PkVLP16 EXCEPT !.azp = <<(i * 473) % 36000, 39, 36000>>,
                                              !.pat = IF i = 1 THEN "one" ELSE "zero"])],
                   10), 0)

EngineFiles ==
    LongFiles \cup MixedFiles \cup CutFiles \cup {OneScanFile}
    \cup {MkFile(TRUE, m, 2, 5, Stamped(TwoHDL32, 10), 0) :
             m \in {StdMagic, <<0, 0>>}}
    \cup {MkFile(FALSE, StdMagic, 2, 5, <<>>, 0), MkFile(TRUE, StdMagic, 2, 5, <<>>, 0)}

InitEngine ==
    /\ \/ file \in EngineFiles /\ pathEmpty = FALSE /\ hasSensor = TRUE
       \/ file = MkFile(FALSE, StdMagic, 2, 5, <<>>, 0) /\ pathEmpty = TRUE
          /\ hasSensor \in BOOLEAN
    /\ InitSensor
    /\ NoFnCall
    /\ engPc = "start"
    /\ InitEngineMembers

NextEngine ==
    \/ EngineInitialize /\ UNCHANGED fnVars
    \/ LoopQuery /\ UNCHANGED fnVars
    \/ CaptureFrame /\ UNCHANGED fnVars
    \/ UpdatePoints /\ UNCHANGED fnVars
    \/ RenderAndFlip /\ UNCHANGED fnVars
    \/ RequestClose /\ UNCHANGED fnVars

SpecEngine == InitEngine /\ [][NextEngine]_vars

(***************************************************************************)
(* What the captures hold, for the statements below.                       *)
(***************************************************************************)
\* the records of f saved in full inside the file
CompleteRecs(f) ==
    {i \in 1 .. Len(f.recs) :
        f.recs[i].off + RecHdrSize + f.recs[i].incl_len <= f.len}

\* the records of f that are data packets (original length 1248), in file order
DataRecsOf(f) ==
    SelectSeq([i \in 1 .. Len(f.recs) |-> i],
              LAMBDA i : i \in CompleteRecs(f) /\ f.recs[i].orig_len = 1248)

\* blocksPerScan of a detected model (181 for the model Unknown, which is
\* decoded with the configuration of HDL32)
BlocksPerScanOf(hw) ==
    IF hw = "VLP16" THEN 76 ELSE IF hw = "VLP32C" THEN 151 ELSE 181

\* a call of GetFirstLidarScan / GetNextLidarScan reported success
Succeeded(a) == a.op # "none" /\ a.rc = GLSE_SUCCESS

(***************************************************************************)
(* C1.  A scan is never partially valid: GetFirstLidarScan and             *)
(* GetNextLidarScan report success only when all blocksPerScan data        *)
(* packets of the scan were read in that call, and readNextScan never      *)
(* delivers a scan assembled from fewer packets.                           *)
(***************************************************************************)
C1_ScanNeverPartial ==
    /\ Succeeded(api) => api.nRead = BlocksPerScanOf(api.hw)
    /\ (lastOp = "read" /\ ret) => deliv.nRead = BlocksPerScanOf(deliv.hw)

\* what the code does instead: success is reported as soon as one packet of
\* the call was read
C1_SuccessIffSomePacket ==
    api.op # "none" /\ api.hdrRead /\ isValidMagicNumber(file.magic) =>
        (api.rc = GLSE_SUCCESS <=> api.nRead >= 1)

C1_PartialDelivered ==
    /\ lastOp = "read" /\ ret
    /\ deliv.nRead = 2
    /\ deliv.hw = "HDL32"
    /\ Len(destination) > 0

(***************************************************************************)
(* C2.  End to end: on a capture with a valid global header holding only   *)
(* two HDL32 data packets, configure followed by readNextScan returns true *)
(* with the model HDL32 and a cloud of as many points as the two packets   *)
(* hold beam entries of non-zero range tick (all of them within the        *)
(* maximum range); the readNextScan after it returns false.                *)
(***************************************************************************)
\* 0xa1b2c3d4, 0xd4c3b2a1, 0xa1b23c4d, 0x4d3cb2a1 as <<high half, low half>>
RecognizedMagics ==
    {<<41394, 50132>>, <<54467, 45729>>, <<41394, 15437>>, <<19772, 45729>>}

TwoHDL32Capture ==
    /\ file.exists
    /\ file.magic \in RecognizedMagics
    /\ Len(file.recs) = 2
    /\ CompleteRecs(file) = {1, 2}
    /\ \A i \in 1 .. 2 :
          /\ file.recs[i].orig_len = 1248
          /\ file.recs[i].incl_len = 1248
          /\ file.recs[i].pk.fhi = 33

\* the range ticks of the beam entries of the data packets of the capture
\* that are not 0, each with its place <<record, block, beam>>
NonZeroTicks ==
    LET p == [i \in 1 .. Len(file.recs) |-> Packet(file.recs[i].pk)]
    IN  {e \in {<<i, k, b, p[i].block[k].v_laser[b].range>> :
                   i \in 1 .. Len(file.recs), k \in 0 .. 11, b \in 0 .. 31} :
            e[4] # 0}

AllWithinMaxRange ==
    \A e \in NonZeroTicks : ~F32Lt(m_maxRangeMeters, F32MulU16(e[4], F32_0p002))

C2_Step ==
    (TwoHDL32Capture /\ nCalls' = nCalls + 1) =>
        /\ lastOp' = "configure" => (m_initialized' /\ m_pendingScan')
        /\ (lastOp = "configure" /\ lastOp' = "read") =>
              /\ ret' = TRUE
              /\ deliv'.hw = "HDL32"
              /\ m_config' = HDL32_Hardware
              /\ AllWithinMaxRange' => Len(destination') = Cardinality(NonZeroTicks)
        /\ (lastOp = "read" /\ lastOp' = "read") => ret' = FALSE

\* C2: every call on a sensor of a two-packet HDL32 capture does what the
\* statement says of it (configure initializes; the read after a configure
\* returns true with the model HDL32 and the points of the non-zero
\* readings; the read after a read returns false)
C2_TwoPacketEndToEnd == [][C2_Step]_vars

C2_TwoPacketScanDelivered ==
    /\ TwoHDL32Capture
    /\ lastOp = "read" /\ ret /\ nTrue = 1
    /\ AllWithinMaxRange
    /\ m_maxRangeMeters = F32_1
    /\ Cardinality(NonZeroTicks) > 1
    /\ Len(destination) = Cardinality(NonZeroTicks)
    /\ ~m_initialized

(***************************************************************************)
(* C3.  Every successful scan assembly consumes exactly blocksPerScan data *)
(* packets of the detected model (76 for VLP16, 181 for HDL32, 151 for     *)
(* VLP32C), and the packets of consecutive scans follow one another in the *)
(* capture: none is skipped between scans, none is used by two scans.      *)
(***************************************************************************)
\* q[1..n] are consecutive entries of the sequence of, starting with its first
IsPrefix(q, of) ==
    /\ Len(q) <= Len(of)
    /\ \A i \in 1 .. Len(q) : q[i] = of[i]

\* C3: a successful assembly read blocksPerScan packets, and the records
\* handed since the open are the first data records of the capture
C3_ConsumesBlocksPerScan ==
    /\ (Succeeded(api) /\ api.hw \in {"VLP16", "HDL32", "VLP32C"}) =>
           Len(api.recs) = BlocksPerScanOf(api.hw)
    /\ (\A i \in 1 .. Len(file.recs) : file.recs[i].incl_len = file.recs[i].orig_len) =>
           IsPrefix(handed, DataRecsOf(file))

\* a complete scan is assembled too, when the capture holds its packets
C3_CompleteScanAssembled ==
    /\ Succeeded(api)
    /\ api.hw = "VLP16"
    /\ Len(api.recs) = 76
    /\ api.recs[76] = 77

(***************************************************************************)
(* C4.  The packets handed to the scan assembler are exactly the records   *)
(* of the capture whose original length is 1248, in file order; a record   *)
(* of any other length is skipped and never decoded as firing data.        *)
(***************************************************************************)
C4_HandsExactlyDataRecords ==
    /\ IsPrefix(handed, DataRecsOf(file))
    /\ (/\ api.op # "none" /\ api.hdrRead
        /\ file.magic \in RecognizedMagics
        /\ api.nRead < api.kMax) => handed = DataRecsOf(file)

\* the statement holds on the captures whose records are all saved in full
C4_HoldsWhenSavedInFull ==
    (\A i \in 1 .. Len(file.recs) : file.recs[i].incl_len = file.recs[i].orig_len)
        => C4_HandsExactlyDataRecords

(***************************************************************************)
(* C5.  A capture whose global header was read in full passes the format   *)
(* validation when its magic number is one of 0xa1b2c3d4, 0xd4c3b2a1,      *)
(* 0xa1b23c4d, 0x4d3cb2a1, and the open succeeds; for every other magic    *)
(* number GetFirstLidarScan returns GLSE_FILEFORMAT_ERROR, not the I/O     *)
(* error, and reads no record.                                             *)
(***************************************************************************)
\* the call read nothing behind the global header
ReadNoRecord ==
    /\ fpos = GlobalHdrSize
    /\ api.nRead = 0 /\ api.failAt = -1
    /\ handed = <<>> /\ m_scan = ZeroScan

C5_NanosecondMagicOpens ==
    /\ api.op = "first" /\ api.hdrRead /\ lastOp = "configure"
    /\ file.magic = <<41394, 15437>>
    /\ api.rc = GLSE_SUCCESS
    /\ api.nRead = 2

ExhaustedAtBoundary(a) ==
    /\ a.nRead = 0
    /\ a.failAt = file.len
    /\ file.len = EndOfRecs(file.recs)

\* C6: exhaustion at a record boundary is reported as GLSE_EOF
C6_EofReported ==
    /\ GLSE_EOF # GLSE_FILEIOERR
    /\ (api.op = "next" /\ ExhaustedAtBoundary(api)) => api.rc = GLSE_EOF

\* what the code reports there
C6_ExhaustionIsIoError ==
    (api.op = "next" /\ ExhaustedAtBoundary(api)) => api.rc = GLSE_FILEIOERR

(***************************************************************************)
(* C7.  populateGeometry emits no point for a beam entry whose range tick  *)
(* is 0 or whose range (tick x metersPerTick) exceeds the configured       *)
(* maximum range, and exactly one point for every other beam entry inside  *)
(* the extent blocksPerScan x firingSequencesPerBlock x numBeams of the    *)
(* configuration, in firing order; so the cloud never holds more points    *)
(* than the scan holds beam entries of non-zero range tick.                *)
(***************************************************************************)
\* the range ticks of a scan, of its zero-initialised part too
TicksOf(firings) ==
    {0} \cup {firings[i].v_laser[b].range : i \in DOMAIN firings, b \in 0 .. 31}

\* the beam entries <<firing, beam>> of a scan that are to yield a point
\* under a configuration and a maximum range
EntriesToEmit(firings, cfg, maxRange) ==
    LET exceeding == {t \in TicksOf(firings) \ {0} :
                         F32Lt(maxRange, F32MulU16(t, F32_0p002))}
    IN  {e \in (DOMAIN firings) \X (0 .. cfg.numBeams - 1) :
            /\ e[1] < cfg.blocksPerScan * cfg.firingSequencesPerBlock
            /\ firings[e[1]].v_laser[e[2]].range # 0
            /\ firings[e[1]].v_laser[e[2]].range \notin exceeding}

NonZeroEntries(firings) ==
    {e \in (DOMAIN firings) \X (0 .. 31) : firings[e[1]].v_laser[e[2]].range # 0}

\* place a lies before place b in firing order
Before(a, b) == a[1] < b[1] \/ (a[1] = b[1] /\ a[2] < b[2])

\* cloud is what the statement asks of a scan
EmitsExactly(cloud, firings, cfg, maxRange) ==
    LET emit == EntriesToEmit(firings, cfg, maxRange) IN
    /\ \A j \in 1 .. Len(cloud) :
          /\ cloud[j].at \in emit
          /\ cloud[j].azimuth = firings[cloud[j].at[1]].azimuth
          /\ cloud[j].range = firings[cloud[j].at[1]].v_laser[cloud[j].at[2]].range
          /\ cloud[j].refl = firings[cloud[j].at[1]].v_laser[cloud[j].at[2]].refl
    /\ \A j \in 1 .. Len(cloud) - 1 : Before(cloud[j].at, cloud[j + 1].at)
    /\ Len(cloud) = Cardinality(emit)
    /\ Len(cloud) <= Cardinality(NonZeroEntries(firings))

C7_Step ==
    (lastOp' = "read" /\ ret' /\ nCalls' = nCalls + 1) =>
        EmitsExactly(destination', m_scan.firings, m_config, m_maxRangeMeters)

\* C7: every readNextScan that returns true leaves in destination exactly
\* the points of the entries to emit of the scan it was given, in order
C7_GeometryFilter == [][C7_Step]_vars

\* a cloud that leaves out readings of tick 0 and readings beyond 1 m
C7_SomeReadingsDropped ==
    /\ lastOp = "read" /\ ret
    /\ m_maxRangeMeters = F32_1
    /\ \E j \in 1 .. Len(destination) : destination[j].range = 500
    /\ \A j \in 1 .. Len(destination) : destination[j].range \in 1 .. 500
    /\ 501 \in TicksOf(m_scan.firings)
    /\ Len(destination) > 100
    /\ Len(destination) < Cardinality(NonZeroEntries(m_scan.firings))

(***************************************************************************)
(* C8.  For a VLP16 packet stored at packet position p, with hardware      *)
(* blocks 0..11: logical firing 24p+2k holds the azimuth of block k and    *)
(* its beam readings 0..15; logical firing 24p+2k+1 holds the beam         *)
(* readings 16..31 of block k and the azimuth azimuth(k) +                 *)
(* (azimuth(k+1) - azimuth(k)) / 2 for k < 11, and for k = 11 the azimuth  *)
(* azimuth(11) + (azimuth(11) - azimuth(10)) / 2.  The quotient is that of *)
(* C (rounded toward zero) and the azimuth is a uint16_t: the sum is taken *)
(* modulo 65536.                                                           *)
(***************************************************************************)
HalfTowardZero(d) == IF d >= 0 THEN d \div 2 ELSE -((-d) \div 2)

InterleavedAt(firings, pkt, p) ==
    \A k \in 0 .. 11 :
        LET even == FiringAt(firings, 24 * p + 2 * k)
            odd == FiringAt(firings, 24 * p + 2 * k + 1)
            az(n) == pkt.block[n].azimuth
            delta == IF k < 11 THEN HalfTowardZero(az(k + 1) - az(k))
                     ELSE HalfTowardZero(az(11) - az(10))
        IN  /\ even.azimuth = az(k)
            /\ \A b \in 0 .. 15 : even.v_laser[b] = pkt.block[k].v_laser[b]
            /\ \A b \in 0 .. 15 : odd.v_laser[b] = pkt.block[k].v_laser[b + 16]
            /\ odd.azimuth = (az(k) + delta) % 65536

\* C8: every packet of a VLP16 scan lies interleaved in the scan buffer
C8_VLP16Interleaving ==
    (api.op # "none" /\ api.hw = "VLP16") =>
        \A j \in 1 .. Len(api.recs) :
            InterleavedAt(m_scan.firings, Packet(file.recs[api.recs[j]].pk), j - 1)

\* a packet whose azimuths pass 36000 between two of its blocks, stored
\* second in the scan
C8_WrappingPacketStored ==
    /\ api.op = "first" /\ api.hw = "VLP16" /\ Len(api.recs) = 2
    /\ file.recs[2].pk.azp = <<35990, 41, 36000>>
    /\ FiringAt(m_scan.firings, 24).azimuth = 35990
    /\ FiringAt(m_scan.firings, 25).azimuth = 18011
    /\ FiringAt(m_scan.firings, 47).azimuth = 441 + 20

(***************************************************************************)
(* C9.  Hardware detection maps the high byte of the 2-byte trailer of the *)
(* first packet as 0x22 -> VLP16, 0x21 -> HDL32, 0x28 -> VLP32C and every  *)
(* other byte value -> Unknown, whatever the low byte.                     *)
(***************************************************************************)
ModelOfHighByte(h) ==
    IF h = 34 THEN "VLP16"
    ELSE IF h = 33 THEN "HDL32"
    ELSE IF h = 40 THEN "VLP32C"
    ELSE "unknown"

\* C9: the model of a scan is the one the high byte of the trailer of its
\* first packet stands for
C9_DetectionByHighByte ==
    (api.op # "none" /\ api.nRead >= 1) =>
        /\ api.hw = ModelOfHighByte(file.recs[api.recs[1]].pk.fhi)
        /\ m_scan.lidarHardware = api.hw

\* 0xA2 differs from 0x22 in its sign bit alone, and 0x22 is the low byte
C9_SignBitHighByteUnknown ==
    /\ api.op = "first" /\ api.nRead = 1
    /\ file.recs[1].pk.fhi = 162
    /\ file.recs[1].pk.flo = 255
    /\ m_scan.lidarHardware = "unknown"

(***************************************************************************)
(* C10.  When the detected model is Unknown the open is not a failure and  *)
(* decoding continues as for HDL32: HDL32's configuration and angle table  *)
(* are in use, the blocks of each packet are copied into the scan as for   *)
(* HDL32, and their non-zero in-range readings produce points.             *)
(***************************************************************************)
\* the packets of call a lie in the scan as the HDL32 branch stores them
StoredAsHDL32(a, firings) ==
    \A j \in 1 .. Len(a.recs) : \A k \in 0 .. 11 :
        FiringAt(firings, (j - 1) * 12 + k) = Packet(file.recs[a.recs[j]].pk).block[k]

\* C10: an open that detects Unknown succeeds with HDL32's configuration
\* and stores the blocks of its packets as the HDL32 branch does
C10_UnknownDecodedAsHDL32 ==
    (api.op = "first" /\ api.nRead >= 1 /\ api.hw = "unknown" /\ lastOp = "configure") =>
        /\ api.rc = GLSE_SUCCESS /\ m_initialized
        /\ m_config = HDL32_Hardware /\ m_angles = "HDL32"
        /\ StoredAsHDL32(api, m_scan.firings)

\* what holds of the code: the open succeeds with HDL32's configuration and
\* the scan is left as it was
C10_UnknownStoresNothing ==
    (api.op = "first" /\ api.nRead >= 1 /\ api.hw = "unknown" /\ lastOp = "configure") =>
        /\ api.rc = GLSE_SUCCESS /\ m_initialized
        /\ m_config = HDL32_Hardware /\ m_angles = "HDL32"
        /\ m_scan.firings = <<>>

(***************************************************************************)
(* C11.  Hardware detection runs once per capture: in every later scan the *)
(* model tag, the packets consumed per scan and the block layout are those *)
(* of the first detection, whatever the trailers of later packets are.     *)
(***************************************************************************)
\* C11: a later scan of a capture that read at least one packet carries the
\* model tag and the number of packets per scan of the scan before it
C11_DetectionFixedForCapture ==
    (api.op = "next" /\ api.nRead >= 1 /\ deliv.op # "none") =>
        /\ api.hw = deliv.hw
        /\ api.kMax = deliv.kMax

\* a later scan that begins with a packet of another model is tagged, sized
\* and laid out by that packet
C11_RedetectedInLaterScan ==
    /\ api.op = "next" /\ api.nRead = 1
    /\ deliv.hw = "VLP16" /\ deliv.kMax = 76
    /\ api.hw = "HDL32" /\ api.kMax = 181
    /\ m_config = VLP16_Hardware


(***************************************************************************)
(* C12.  The Legacy timestamp is 1000 * sec + 1000 * usec as a 64-bit      *)
(* value for every pair of unsigned 32-bit values, neither product         *)
(* wrapping at 2^32.                                                       *)
(***************************************************************************)
\* 1000 * sec + 1000 * usec with both products formed in 64 bits
LegacyTicks64(sec, usec) ==
    AddBytes(MulBytes(Widen(sec, U64Bytes), 1000, 0),
             MulBytes(Widen(usec, U64Bytes), 1000, 0), 0)

\* C12: every Legacy call of getPCAPVersionDependentLiDARTimestamp returns
\* 1000 * sec + 1000 * usec computed in 64 bits
C12_LegacyNoWraparound ==
    (fnOut # NoFn /\ fnIn.fn = "timestamp" /\ fnIn.type = "Legacy") =>
        fnOut.timestamp_us = LegacyTicks64(fnIn.sec, fnIn.usec)

\* sec = 2, usec = 3 gives 5000
C12_TestValueReturned ==
    /\ fnOut # NoFn /\ fnIn.fn = "timestamp" /\ fnIn.type = "Legacy"
    /\ fnIn.sec = U32Of(2) /\ fnIn.usec = U32Of(3)
    /\ fnOut.timestamp_us = Widen(U32Of(5000), U64Bytes)

\* sec = 4294968: 1000 * sec is 4294968000, the call returns 704 (+ 0)
C12_ProductWraps ==
    /\ fnOut # NoFn /\ fnIn.fn = "timestamp" /\ fnIn.type = "Legacy"
    /\ fnIn.sec = U32Of(4294968) /\ fnIn.usec = U32Of(0)
    /\ fnOut.timestamp_us = Widen(U32Of(704), U64Bytes)

(***************************************************************************)
(* C13.  The Corrected timestamp is (1 000 000 * sec + usec) mod           *)
(* (2^32 - 1) for every pair of unsigned 32-bit values, computed without   *)
(* intermediate overflow, and so smaller than 2^32 - 1.                    *)
(***************************************************************************)
\* bytes enough for 1 000 000 * sec + usec of any two unsigned ints
ExactBytes == 10

\* 1 000 000 * sec + usec
ExactMicros(sec, usec) ==
    AddBytes(MulBytes(Widen(sec, ExactBytes), 1000000, 0), Widen(usec, ExactBytes), 0)

\* r is below 2^32 - 1 and v = q * (2^32 - 1) + r for a quotient q, that is
\* q * 2^32 + r = v + q; the quotient is at least the part of v above 2^32
IsRemainderByRollover(r, v) ==
    /\ SubSeq(r, 5, 8) = <<0, 0, 0, 0>>
    /\ SubSeq(r, 1, 4) # <<255, 255, 255, 255>>
    /\ \E q \in NatOfBytes(SubSeq(v, 5, 8)) .. NatOfBytes(SubSeq(v, 5, 8)) + 2 :
           AddBytes(Widen(<<0, 0, 0, 0>> \o U32Of(q), ExactBytes), Widen(r, ExactBytes), 0)
               = AddBytes(v, Widen(U32Of(q), ExactBytes), 0)

\* C13: every Corrected call of getPCAPVersionDependentLiDARTimestamp returns
\* the remainder of the exact 1 000 000 * sec + usec by 2^32 - 1, a value
\* below 2^32 - 1
C13_CorrectedModuloRollover ==
    (fnOut # NoFn /\ fnIn.fn = "timestamp" /\ fnIn.type = "Corrected") =>
        \E v \in {ExactMicros(fnIn.sec, fnIn.usec)} :
            IsRemainderByRollover(fnOut.timestamp_us, v)

\* sec = 4295, usec = 500: 4 295 000 500 passes 2^32 - 1 and 33205 is returned
C13_RolledOverOnce ==
    /\ fnOut # NoFn /\ fnIn.fn = "timestamp" /\ fnIn.type = "Corrected"
    /\ fnIn.sec = U32Of(4295) /\ fnIn.usec = U32Of(500)
    /\ fnOut.timestamp_us = Widen(U32Of(33205), U64Bytes)

\* sec = 1, usec = 500 gives 1 000 500
C13_TestValueReturned ==
    /\ fnOut # NoFn /\ fnIn.fn = "timestamp" /\ fnIn.type = "Corrected"
    /\ fnIn.sec = U32Of(1) /\ fnIn.usec = U32Of(500)
    /\ fnOut.timestamp_us = Widen(U32Of(1000500), U64Bytes)

(***************************************************************************)
(* C14.  For every version other than 2.4 determineLiDARTimeScalingType    *)
(* decides from the version alone, neither reads nor repositions the       *)
(* stream (a null stream is accepted) and overwrites the output.           *)
(***************************************************************************)
\* C14: a call with a version other than 2.4 leaves Corrected in the output
\* for major > 2 or (major = 2 and minor > 4) and Legacy for major < 2 or
\* (major = 2 and minor < 4), whatever the output held; it reads no record
\* header and leaves the stream where it was
C14_DecidedFromVersionAlone ==
    (fnOut # NoFn /\ fnIn.fn = "scaling" /\ ~(fnIn.major = 2 /\ fnIn.minor = 4)) =>
        /\ (fnIn.major > 2 \/ (fnIn.major = 2 /\ fnIn.minor > 4)) => fnOut.type = "Corrected"
        /\ (fnIn.major < 2 \/ (fnIn.major = 2 /\ fnIn.minor < 4)) => fnOut.type = "Legacy"
        /\ fnOut.nHeaders = 0
        /\ fnOut.pos = fnIn.pos

\* version 2.3 on a null stream, the output holding Corrected before
C14_NullStreamOverwritten ==
    /\ fnOut # NoFn /\ fnIn.fn = "scaling"
    /\ fnIn.major = 2 /\ fnIn.minor = 3
    /\ fnIn.stream = NullStream /\ fnIn.out = "Corrected"
    /\ fnOut.type = "Legacy"

(***************************************************************************)
(* C15.  For a capture of version 2.4 the mode is Legacy when the sampling *)
(* yields fewer than 2 deltas (also for an empty record stream and for one *)
(* with no data or position record); the statistics decide exactly when    *)
(* at least 2 deltas were collected.                                       *)
(***************************************************************************)
\* the records of f that are data or position packets
QualifyingRecs(f) ==
    {i \in 1 .. Len(f.recs) :
        f.recs[i].orig_len = dataPacketLength \/ f.recs[i].orig_len = gpsPacketLength}

C15_TwoSamplesDecide ==
    /\ fnOut # NoFn /\ fnIn.fn = "scaling" /\ fnIn.major = 2 /\ fnIn.minor = 4
    /\ fnOut.deltas = <<U32Of(30), U32Of(30)>>
    /\ fnOut.type = "Corrected"

\* a record stream with records, none of them a data or position packet
C15_NoQualifyingRecord ==
    /\ fnOut # NoFn /\ fnIn.fn = "scaling" /\ fnIn.major = 2 /\ fnIn.minor = 4
    /\ Len(fnIn.stream.recs) = 2 /\ QualifyingRecs(fnIn.stream) = {}
    /\ fnOut.type = "Legacy"

(***************************************************************************)
(* C16.  With min, max and mean taken over the sampled deltas: Corrected   *)
(* if min >= 5, max >= 25 and mean >= 7; else Legacy if min <= 1, max <= 5 *)
(* and mean <= 3; else Corrected exactly when more statistics meet their   *)
(* Corrected threshold than their Legacy threshold, Legacy otherwise.      *)
(***************************************************************************)
\* the sum of the deltas, in 64 bits
RECURSIVE ExactSum(_, _, _)
ExactSum(q, lo, hi) ==
    IF lo > hi THEN Widen(U32Of(0), U64Bytes)
    ELSE IF lo = hi THEN Widen(q[lo], U64Bytes)
    ELSE AddBytes(ExactSum(q, lo, (lo + hi) \div 2),
                  ExactSum(q, (lo + hi) \div 2 + 1, hi), 0)

\* x >= t and x <= t for a 64-bit x and a threshold t below 2^24
GeWide(x, t) == (\E i \in 4 .. Len(x) : x[i] > 0) \/ NatOfBytes(x) >= t
LeWide(x, t) == (\A i \in 4 .. Len(x) : x[i] = 0) /\ NatOfBytes(x) <= t

\* the mode the statement gives for the deltas; mean >= 7 is sum >= 7 * n
StatedMode(deltas) ==
    LET n == Len(deltas)
        minC == GeSmall(SeqMin(deltas), 5)
        maxC == GeSmall(SeqMax(deltas), 25)
        meanC == GeWide(ExactSum(deltas, 1, n), 7 * n)
        minL == LeSmall(SeqMin(deltas), 1)
        maxL == LeSmall(SeqMax(deltas), 5)
        meanL == LeWide(ExactSum(deltas, 1, n), 3 * n)
    IN  IF minC /\ maxC /\ meanC THEN "Corrected"
        ELSE IF minL /\ maxL /\ meanL THEN "Legacy"
        ELSE IF Cardinality({k \in {"min", "max", "mean"} :
                                \/ k = "min" /\ minC
                                \/ k = "max" /\ maxC
                                \/ k = "mean" /\ meanC})
                > Cardinality({k \in {"min", "max", "mean"} :
                                  \/ k = "min" /\ minL
                                  \/ k = "max" /\ maxL
                                  \/ k = "mean" /\ meanL})
        THEN "Corrected"
        ELSE "Legacy"

\* the deltas a call decided from
DecidedDeltas ==
    IF fnIn.fn = "arbitrate" THEN fnIn.deltas
    ELSE IF fnIn.fn = "scaling" /\ fnOut # NoFn THEN fnOut.deltas
    ELSE <<>>

\* C16: the mode decided from 2 or more deltas is the one the thresholds and
\* votes give on their minimum, their maximum and their mean
C16_ThresholdsAndVotes ==
    (fnOut # NoFn /\ Len(DecidedDeltas) >= 2) => fnOut.type = StatedMode(DecidedDeltas)

\* the mode is the stated one whenever the sum of the deltas is below 2^32
C16_HoldsWhenSumFits ==
    (fnOut # NoFn /\ Len(DecidedDeltas) >= 2
       /\ ExactSum(DecidedDeltas, 1, Len(DecidedDeltas))
              = Widen(SeqSum(DecidedDeltas), U64Bytes)) =>
        fnOut.type = StatedMode(DecidedDeltas)

\* records with microsecond fields 5, 0, 5, 6: the deltas 2^32 - 5, 5 and 1
\* sum to 1 in unsigned int, and the mode is Legacy
C16_WrappedSumVotesLegacy ==
    /\ fnOut # NoFn /\ fnIn.fn = "scaling"
    /\ fnOut.deltas = <<<<251, 255, 255, 255>>, U32Of(5), U32Of(1)>>
    /\ fnOut.type = "Legacy"
    /\ StatedMode(fnOut.deltas) = "Corrected"

(***************************************************************************)
(* C17.  Timestamp-mode sampling consumes nothing: it inspects at most 100 *)
(* records and the first scan of GetFirstLidarScan is read from the        *)
(* position right after the global header, so it starts with the first     *)
(* data packet of the capture, for every version and however many records  *)
(* were sampled.                                                           *)
(***************************************************************************)
\* every record of f is saved in full
SavedInFull(f) ==
    \A i \in 1 .. Len(f.recs) :
        i \in CompleteRecs(f) /\ f.recs[i].incl_len = f.recs[i].orig_len

\* C17: an open that passed the magic number inspected at most 100 record
\* headers and read its first scan from behind the global header; on a
\* capture saved in full the first packet of that scan is the first data
\* record of the capture
C17_SamplingConsumesNothing ==
    (api.op = "first" /\ api.hdrRead /\ file.magic \in RecognizedMagics) =>
        /\ api.sampled <= maxNumPacketsToCheck
        /\ api.startPos = GlobalHdrSize
        /\ SavedInFull(file) =>
              IF DataRecsOf(file) = <<>> THEN api.nRead = 0
              ELSE api.nRead >= 1 /\ api.recs[1] = DataRecsOf(file)[1]

\* a capture of version 2.4 with more than 100 records: 100 are sampled and
\* the first scan starts with the first record
C17_HundredSampledFirstPacketKept ==
    /\ api.op = "first" /\ file.version_major = 2 /\ file.version_minor = 4
    /\ Len(file.recs) > maxNumPacketsToCheck
    /\ api.sampled = maxNumPacketsToCheck
    /\ api.nRead >= 1 /\ api.recs[1] = 1

(***************************************************************************)
(* C18.  The timestamp scaling mode is decided once, when the capture is   *)
(* opened, and no later GetNextLidarScan / readNextScan changes it: every  *)
(* record timestamp of a capture is converted with the same mode.          *)
(***************************************************************************)
\* the timestamp of record r in the mode (the values of the captures are
\* small: no product wraps and nothing reaches 2^32 - 1)
ConvertedIn(mode, r) ==
    IF mode = "Legacy" THEN 1000 * r.ts_sec + 1000 * r.ts_usec
    ELSE 1000000 * r.ts_sec + r.ts_usec

\* the block timestamps of the packets the last call of the reader read are
\* the timestamps of their records converted in the mode
ConvertedWith(mode, a, scan) ==
    \A k \in 1 .. a.nRead :
        scan.block_timestamp_us[k - 1] = ConvertedIn(mode, file.recs[a.recs[k]])

C18_Step ==
    /\ lastOp' = "read" => gPcapLidarTimeScalingType' = gPcapLidarTimeScalingType
    /\ (lastOp' = "configure" /\ m_initialized) =>
          gPcapLidarTimeScalingType' = gPcapLidarTimeScalingType
    /\ (lastOp' = "configure" /\ ~m_initialized /\ ~pathEmpty) =>
          ConvertedWith(gPcapLidarTimeScalingType', api', m_scan')
    /\ (lastOp' = "read" /\ ret') =>
          ConvertedWith(gPcapLidarTimeScalingType, api', m_scan')

\* C18: a readNextScan, and a configure of an open capture, leave the mode
\* as the open decided it, and the timestamps of the packets each call of
\* the reader reads are converted in that mode
C18_ModeFixedAtOpen == [][C18_Step]_vars

\* a later scan of a capture opened as Legacy: its packet (record 78, second
\* 1, microsecond 780) is stamped 781000
C18_LaterScanLegacy ==
    /\ api.op = "next" /\ api.nRead = 1
    /\ gPcapLidarTimeScalingType = "Legacy"
    /\ m_scan.block_timestamp_us[0] = 781000

(***************************************************************************)
(* C19.  In a replay cycle whose readNextScan fails no new frame is        *)
(* produced: the sink is not handed a point cloud for that cycle (the      *)
(* frame it last received is not replaced by an empty or different one),   *)
(* and the loop goes on to the next cycle.                                 *)
(***************************************************************************)
C19_Step ==
    (engPc = "update" /\ ~ret) =>
        /\ sinkUpdates' = sinkUpdates
        /\ sinkPoints' = sinkPoints

\* C19: in a pass of the loop whose readNextScan returned false, updatePoints
\* is not called and the cloud the sink holds stays as it is
C19_FailedCycleKeepsFrame == [][C19_Step]_vars

\* after a pass whose readNextScan returned false the sink holds the empty
\* cloud in place of the frame it was handed before, and the loop goes on
C19_FrameReplacedByEmpty ==
    /\ engPc = "query" /\ nCycles >= 2 /\ ~ret
    /\ sinkUpdates = nCycles
    /\ sinkPoints = <<>>
    /\ destination # <<>>

(***************************************************************************)
(* C20.  After a successful initialize, run leaves its loop only when      *)
(* windowShouldClose returns true; the query is made exactly once per      *)
(* cycle, at the cycle boundary: a stop request raised during decode or    *)
(* delivery lets the cycle finish, no cycle starts after the query         *)
(* returned true, and exhaustion or a read failure never ends the loop.    *)
(***************************************************************************)
InCycle == engPc \in {"capture", "update", "render"}

C20_Step ==
    \* the loop is left at its condition only, and on a close request only
    /\ (engPc # "done" /\ engPc # "start" /\ engPc' = "done") =>
          (engPc = "query" /\ closeRequested)
    \* a cycle begins at the condition only, the request not being raised
    /\ (~InCycle /\ InCycle') => (engPc = "query" /\ ~closeRequested)
    \* one query per cycle, made where a cycle begins or the loop ends
    /\ nQueries' # nQueries =>
          (engPc = "query" /\ nQueries' = nQueries + 1
             /\ (engPc' = "capture" \/ engPc' = "done"))
    /\ nCycles' # nCycles => (nQueries' = nQueries + 1 /\ nCycles' = nCycles + 1)
    \* a cycle runs to its end whatever is requested and whatever the read gave
    /\ (engPc = "capture" /\ engPc' # engPc) => engPc' = "update"
    /\ (engPc = "update" /\ engPc' # engPc) => engPc' = "render"
    /\ (engPc = "render" /\ engPc' # engPc) => engPc' = "query"
    \* nothing runs after the loop was left
    /\ engPc = "done" => (engPc' = "done" /\ nCycles' = nCycles)

\* C20: every step of run after a successful initialize is as above, and
\* the queries made are as many as the cycles begun, one more once the loop
\* was left
C20_LoopEndsOnCloseOnly ==
    /\ [][C20_Step]_vars
    /\ [](engPc \in {"query", "capture", "update", "render"} => nQueries = nCycles)
    /\ []((engPc = "done" /\ nQueries > 0) => (nQueries = nCycles + 1 /\ closeRequested))

\* the loop was left on a close request raised inside a cycle that came
\* after a cycle whose readNextScan had returned false
C20_LeftAfterFailedReads ==
    /\ engPc = "done" /\ closeRequested
    /\ nCycles = 3 /\ nQueries = 4
    /\ ~ret /\ sinkUpdates = 3

(***************************************************************************)
(* C21.  The active buffer index is always 0 or 1 and flips exactly once   *)
(* per replay cycle, so the cloud handed to the sink in cycle n is neither *)
(* cleared nor written during cycle n+1 and is first reused in cycle n+2.  *)
(***************************************************************************)
C21_Step ==
    \* the index changes at the end of a cycle only, to the other buffer
    /\ m_readIndex' # m_readIndex => engPc = "render"
    /\ (engPc = "render" /\ engPc' = "query") => m_readIndex' = 1 - m_readIndex
    \* a buffer is cleared or written by captureFrame only, the active one
    /\ \A i \in {0, 1} :
          m_pointBuffers'[i] # m_pointBuffers[i] =>
              (engPc = "capture" /\ i = m_readIndex)

\* C21: the index is 0 or 1, is that of the cycle's parity, changes as in
\* C21_Step, and while cycle n+1 captures and until it hands its own cloud
\* to the sink the other buffer still holds the cloud handed in cycle n
C21_BuffersAlternate ==
    /\ [](m_readIndex \in {0, 1})
    /\ [][C21_Step]_vars
    /\ [](InCycle => m_readIndex = (nCycles - 1) % 2)
    /\ [](engPc = "query" => m_readIndex = nCycles % 2)
    /\ []((engPc \in {"capture", "update"} /\ nCycles >= 2) =>
             m_pointBuffers[1 - m_readIndex] = sinkPoints)

\* on a capture of two packets: cycle 3 has cleared buffer 0, which cycle 1
\* had filled with the scan, while buffer 1 holds what cycle 2 handed to
\* the sink
C21_ReusedTwoCyclesLater ==
    /\ engPc = "update" /\ nCycles = 3 /\ m_readIndex = 0
    /\ Len(file.recs) = 2
    /\ Len(destination) > 0 /\ Len(m_pointBuffers[0]) = 0
    /\ m_pointBuffers[1] = sinkPoints

\* C22: a stream GetFirstLidarScan opened is closed once the sensor is not
\* initialized (it was finalized, or its initialization failed), and no
\* more than one stream is open at a time
C22_ClosedOnEveryPath ==
    /\ openStreams \in {0, 1}
    /\ ~m_initialized => openStreams = 0

\* the point of the stated formulas for the reading of a call: r the range
\* tick times the metres per tick, phi the vertical angle of the beam, theta
\* the firing's azimuth in radians plus the rotation during the beam's delay
StatedPoint(c) ==
    LET r == c.range * 2
        phi == m_verticalAnglesRad(c.angles, c.beam)
        \* 2 pi / 36000 = 3.1416 / 18000
        theta == (c.azimuth * 31416 + 9000) \div 18000
                 + (m_spinRate * c.beam * c.usPerFiring + 5000000) \div 10000000
    IN  [x |-> FixMul(FixMul(r, StdCos(phi)), StdCos(theta)),
         y |-> Negated(FixMul(FixMul(r, StdCos(phi)), StdSin(theta))),
         z |-> FixMul(r, StdSin(phi)),
         intensity |-> (c.refl * 10000) \div 255]

\* a and b differ by no more than tol
Near(a, b, tol) == a - b <= tol /\ b - a <= tol

\* C23: the point emitted for a reading is that of the stated formulas (to
\* a thousandth of the range); its distance to the origin is the range; a
\* reading of 1 m at azimuth 0 on a beam of vertical angle 0 (beam 15 of
\* HDL32) gives x = 1, y = 0, z = 0 to 2 mm
C23_PointFormula ==
    (fnOut.fn = "geometry") =>
        LET p == fnOut.point
            s == StatedPoint(fnIn)
            r == fnIn.range * 2
            tol == 2 + r \div 1000
        IN  /\ Near(p.x, s.x, tol) /\ Near(p.y, s.y, tol) /\ Near(p.z, s.z, tol)
            /\ p.intensity = s.intensity
            /\ r <= 10000 =>
                  Near(p.x * p.x + p.y * p.y + p.z * p.z, r * r, 2 + (r * r) \div 250)
            /\ (fnIn.azimuth = 0 /\ r = 1000
                /\ m_verticalAnglesRad(fnIn.angles, fnIn.beam) = 0) =>
                  (Near(p.x, 1000, 2) /\ Near(p.y, 0, 2) /\ Near(p.z, 0, 2))

\* a reading of 10 m a quarter of a turn round, on the beam of VLP16 whose
\* vertical angle is 0.0175 rad: the point lies at negative y, above the
\* horizontal
C23_QuarterTurnNegativeY ==
    /\ fnOut.fn = "geometry"
    /\ fnIn.azimuth = 9000 /\ fnIn.range = 5000 /\ fnIn.beam = 1
    /\ fnIn.angles = "VLP16"
    /\ fnOut.point.y < -9900 /\ Near(fnOut.point.x, 0, 100) /\ fnOut.point.z > 0


(***************************************************************************)
(* C24.  latestTimestamp() is the timestamp of the most recent successful  *)
(* readNextScan, 0 before the first; a failed captureFrame leaves it.      *)
(***************************************************************************)
C24_Step ==
    /\ (engPc = "capture" /\ engPc' = "update" /\ ret') =>
          m_latestTimestamp' = timestamp_us'
    /\ (engPc = "capture" /\ engPc' = "update" /\ ~ret') =>
          m_latestTimestamp' = m_latestTimestamp
    /\ engPc # "capture" => m_latestTimestamp' = m_latestTimestamp

\* C24: captureFrame stores the timestamp of a successful read and leaves
\* the member on a failed one, nothing else writes it; so it is 0 until a
\* read has succeeded and then the timestamp the last successful read gave
C24_LatestTimestamp ==
    /\ [][C24_Step]_vars
    /\ [](nTrue = 0 => m_latestTimestamp = 0)
    /\ [](nTrue > 0 => m_latestTimestamp = timestamp_us)

\* the second cycle's read failed after the first had delivered the one
\* scan of the capture: the member still holds that scan's timestamp
C24_KeptAfterFailedCapture ==
    /\ engPc = "update" /\ nCycles = 2 /\ ~ret /\ nTrue = 1
    /\ m_latestTimestamp = timestamp_us /\ m_latestTimestamp > 0

(***************************************************************************)
(* C25.  The search of readNextDataPacket for the next data packet is an   *)
(* iterative retry, its call depth bounded whatever the number of records  *)
(* skipped.                                                                *)
(***************************************************************************)
\* C25: in every call of the reader no search for a data packet nests more
\* than one call of readNextDataPacket inside the first (a depth of 2),
\* however many records it skips
C25_SkipDepthBounded == api.depth <= 2

(***************************************************************************)
(* C26.  The firings written by the assembly of a scan and the firings     *)
(* read by populateGeometry for its frame are the same indices.            *)
(***************************************************************************)
\* the firings the assembly recorded by a wrote: those of the packets it read
FiringsWrittenBy(a) == 0 .. a.nRead * FiringsWrittenPerPacket(a.hw) - 1

\* the firings populateGeometry reads under the configuration cfg
FiringsReadUnder(cfg) == 0 .. cfg.blocksPerScan * cfg.firingSequencesPerBlock - 1

\* C26: when readNextScan has delivered a frame, the firings it computed the
\* points from are those that the assembly of the delivered scan wrote, and
\* they lie inside the firing array
C26_ReadFiringsWereWritten ==
    (lastOp = "read" /\ ret) =>
        /\ FiringsReadUnder(m_config) = FiringsWrittenBy(deliv)
        /\ FiringsReadUnder(m_config) \subseteq
               0 .. maxkHDLFiringSequencesPerBlock * maxkHDLMaxBlocksPerScan - 1

(***************************************************************************)
(* C27.  The k-th readNextScan that returns true delivers the k-th scan    *)
(* assembled: each assembled scan is delivered once, in order, the last    *)
(* one before exhaustion included.                                         *)
(***************************************************************************)
\* the step is a call of readNextScan that returned true
TrueRead == lastOp' = "read" /\ ret' /\ nTrue' = nTrue + 1

\* the step made a call of the reader that assembled a scan
Assembled == api' # api /\ Succeeded(api')

C27_Step ==
    \* a scan is delivered only when one is pending, and it is that scan, as
    \* the assembly left it: its cloud and its timestamp
    /\ TrueRead =>
          /\ m_initialized /\ m_pendingScan /\ Succeeded(pend) /\ deliv' = pend
          /\ destination' = populateGeometry(m_scan.firings, m_config, m_maxRangeMeters)
          /\ timestamp_us' = m_scan.timestamp_us
          \* and the scan prefetched behind it is pending, if there is one
          /\ m_pendingScan' => (Assembled /\ m_initialized')
          /\ ~m_pendingScan' => (~Succeeded(api') /\ ~m_initialized')
    \* nothing else writes the destination, the timestamp or the count
    /\ ~TrueRead =>
          /\ destination' = destination /\ timestamp_us' = timestamp_us
          /\ deliv' = deliv /\ (nTrue' = nTrue \/ nTrue' = 0)
    \* a pending scan is overwritten only by the read that delivers it
    /\ (m_pendingScan /\ m_scan' # m_scan) => TrueRead
    \* a scan is assembled when none is pending or the pending one is being
    \* delivered; it is pending afterwards, and it follows the delivered one
    /\ Assembled =>
          /\ ~m_pendingScan \/ TrueRead
          /\ m_pendingScan' /\ pend' = api' /\ m_scan' # ZeroScan
          /\ TrueRead => (api'.op = "next" /\ api'.startPos = fpos)
    \* a scan stops pending only by being delivered
    /\ (m_pendingScan /\ ~m_pendingScan') => TrueRead

\* C27: every step is as above; a pending scan is one that an assembly
\* made, and when none is pending the scan last assembled is the scan last
\* delivered
C27_DeliveredInOrder ==
    /\ [][C27_Step]_vars
    /\ [](m_pendingScan => (m_initialized /\ Succeeded(pend)))
    /\ []((nTrue > 0 /\ ~m_pendingScan) => deliv = pend)
    /\ [](nTrue > 0 => Succeeded(deliv))

\* the second true read of a capture of 77 data packets delivered the scan
\* made of the last one, the prefetch behind it having exhausted the capture
C27_LastScanDelivered ==
    /\ lastOp = "read" /\ ret /\ nTrue = 2
    /\ ~m_initialized /\ ~m_pendingScan
    /\ deliv.op = "next" /\ deliv.nRead = 1 /\ ~Succeeded(api)
    /\ Len(destination) > 0

(***************************************************************************)
(* C28.  Exhaustion is absorbing under any interleaving of configure and   *)
(* readNextScan.                                                           *)
(***************************************************************************)
\* the capture is exhausted: finalizeSensor has closed the stream behind the
\* last scan; a readNextScan in this state returns false and changes nothing
Exhausted == fpState = "closed" /\ ~m_initialized /\ ~m_pendingScan

C28_Step ==
    Exhausted =>
        /\ Exhausted'
        /\ api' = api /\ fpos' = fpos
        /\ destination' = destination /\ timestamp_us' = timestamp_us
        /\ lastOp' = "read" => ~ret'

\* C28: a call made on a sensor whose capture is exhausted leaves it
\* exhausted, makes no call of the reader, leaves the destination and the
\* timestamp, and returns false if it is a readNextScan
C28_ExhaustionAbsorbing == [][C28_Step]_vars

(***************************************************************************)
(* C29.  The azimuths stored for a VLP16 packet of valid block azimuths    *)
(* are valid ticks, in rotation order, also across the passage through 0.  *)
(***************************************************************************)
\* the azimuth ticks of a full turn
HDL_NUM_ROT_ANGLES == 36000

\* the ticks from azimuth a on to azimuth b, in the sense of rotation
TicksOn(a, b) == (b - a) % HDL_NUM_ROT_ANGLES

\* the firing k of the scan is that of an odd firing sequence other than
\* the last of its packet, resp. of the last one
Interpolated(k) ==
    k % 2 = 1 /\ k % VLP16_Hardware.firingSequencesPerBlock
                    # VLP16_Hardware.firingSequencesPerBlock - 1
Extrapolated(k) ==
    k % VLP16_Hardware.firingSequencesPerBlock
        = VLP16_Hardware.firingSequencesPerBlock - 1

\* C29: in a scan of VLP16 just assembled from packets whose block azimuths
\* are ticks below 36000, an interpolated azimuth is a tick below 36000 that
\* lies between the azimuth of its block and that of the next block in the
\* sense of rotation, and an extrapolated one does not exceed 36000
C29_VLP16AzimuthsValid ==
    (Succeeded(api) /\ api.hw = "VLP16") =>
        LET fs == m_scan.firings
            written == 0 .. api.nRead * VLP16_Hardware.firingSequencesPerBlock - 1
        IN  (\A k \in written : k % 2 = 0 => fs[k].azimuth < HDL_NUM_ROT_ANGLES) =>
                \A k \in written :
                    /\ Interpolated(k) =>
                          /\ fs[k].azimuth < HDL_NUM_ROT_ANGLES
                          /\ TicksOn(fs[k - 1].azimuth, fs[k].azimuth)
                                 <= TicksOn(fs[k - 1].azimuth, fs[k + 1].azimuth)
                    /\ Extrapolated(k) => fs[k].azimuth <= HDL_NUM_ROT_ANGLES

(***************************************************************************)
(* C30.  The sampling of a capture of version 2.4 interprets record        *)
(* headers only, stepping over records of unknown length in full.          *)
(***************************************************************************)
\* the data and position records among the first 100 records of f, in order
SampledQualifying(f) ==
    SelectSeq([i \in 1 .. Len(f.recs) |-> i],
              LAMBDA i : i <= maxNumPacketsToCheck /\ i \in QualifyingRecs(f))

\* the differences of the microsecond fields of consecutive records of q
StatedDeltas(f, q) ==
    [j \in 1 .. (IF Len(q) = 0 THEN 0 ELSE Len(q) - 1) |->
        SubBytes(U32Of(f.recs[q[j + 1]].ts_usec), U32Of(f.recs[q[j]].ts_usec))]

\* C30: on a capture of version 2.4 whose records are saved in full, the
\* headers the sampling interprets are no more than the records (they are
\* read at increasing positions, each the start of a record), and the deltas
\* are the differences between consecutive data or position records among
\* the first 100 records
C30_SamplingOnRecordBoundaries ==
    (/\ fnOut # NoFn /\ fnIn.fn = "scaling"
     /\ fnIn.major = 2 /\ fnIn.minor = 4 /\ SavedInFull(fnIn.stream)) =>
        /\ fnOut.nHeaders <= Len(fnIn.stream.recs)
        /\ fnOut.deltas = StatedDeltas(fnIn.stream, SampledQualifying(fnIn.stream))

=============================================================================
